---- MODULE Spec2Model ----
(***************************************************************************)
(* Verification model of the leader/lagger trading engine.                 *)
(*                                                                         *)
(* Spec:       the portfolio simulator (backtest/portfolio.py):           *)
(*             run_portfolio_for_trade_suggestions ->                      *)
(*             _run_static_portfolio -> _daily_returns_from_trades.        *)
(* SpecSector: the per-sector daily return series and metrics table        *)
(*             (reporting/sector_filters.py, _compute_sector_daily_returns,*)
(*             _compute_sector_metrics, _compute_stability_score).         *)
(* SpecGate:   the sector gate (reporting/sector_filters.py,               *)
(*             _evaluate_sector_weighted_strict as applied by              *)
(*             compute_investable_sectors).                                *)
(*                                                                         *)
(* Dates are business-day ordinals 1, 2, ...: every entry_date/exit_date   *)
(* is a row label of the price table of US equities (data/universe.py), so *)
(* pd.date_range(start, end, freq="B") walks the ordinals start..end.      *)
(* Returns are integers in units of 1/RetScale; a daily return and an      *)
(* equity value are exact fractions [num, den].                            *)
(***************************************************************************)
EXTENDS Integers, Sequences, FiniteSets, TLC

VARIABLES
    trades,        \* input trade table of run_portfolio_for_trade_suggestions
    best_rules,    \* RuleKeys of the rows of the best-rules table
    cols,          \* which required columns the two input tables carry
    pc,            \* position in the call
    selected,      \* rows of trades handed to _run_static_portfolio (row ids)
    day,           \* the simulated day most recently processed
    last_day,      \* end of the simulated date range
    open_trades,   \* list of row ids
    used_trades,   \* list of row ids
    result,        \* what the call returned (or raised)
    daily,             \* sector_filters: the day x sector return table
    strict_params,     \* sector_filters: SECTOR_STRICT_PARAMS
    metrics,           \* sector_filters: the per-sector metrics table
    investable_flags,  \* sector_filters: one flag per metrics row
    investable_reasons, \* sector_filters: one reason list per metrics row
    quality_args,  \* rule_scoring: arguments of a _compute_rule_quality call
    quality,       \* rule_scoring: what that call returned
    rule_params,   \* rule_scoring: the dict handed to generate_rule_id
    rule_ids,      \* rule_scoring: the identifiers computed for it so far
    series,        \* main: the normalized price frame, one column of prices per ticker
    signals,       \* main: the list of lag signals
    trades_df,     \* main: trades of the first backtest_signals pass
    scores_df,     \* main: the table score_rules returned (or what it raised)
    scored_rules,  \* the scored table handed to the second pass and beyond
    trades_with_id, \* main: trades of the second backtest_signals pass
    stability_df,  \* main: the table compute_rule_stability returned
    detect_args,   \* lag_detector: arguments of a _detect_lag_signals_for_group call
    end_idx,       \* lag_detector: 0-based end row of the next window
    universe,      \* data: group name -> tickers, as a list of (name, tickers) items
    fingerprint,   \* adaptive_grid: per group, the volatility statistics of its returns
    sector_param_grid \* adaptive_grid: the dict build_sector_param_grid returned

portfolio_vars == <<best_rules, cols, selected, open_trades, used_trades, result>>

sector_vars == <<daily>>

gate_vars == <<strict_params, metrics, investable_flags, investable_reasons>>

scorer_vars == <<quality_args, quality, rule_params, rule_ids>>

engine_vars == <<series, signals, trades_df, scores_df, scored_rules,
                 trades_with_id, stability_df>>

detector_vars == <<detect_args, end_idx, universe, fingerprint,
                   sector_param_grid>>

vars == <<trades, pc, day, last_day, portfolio_vars, sector_vars, gate_vars,
          scorer_vars, engine_vars, detector_vars>>

----------------------------------------------------------------------------
(* Program constants and absent values *)

MAX_CONCURRENT_TRADES == 3

\* exit_date of an open trade (None -> NaT in the trade table)
NaT == 0

\* absent rule_quality_score / avg_ret / ret (NaN in the trade table)
NaN == 0

----------------------------------------------------------------------------
(* Bounds of the model *)

\* rows of a trade table in the admission scenarios
MaxTrades == 4

\* rows of a trade table in the equity scenarios
MaxEqTrades == 3

\* rows of a trade table in the rule-matching scenarios
MaxKeyTrades == 2

\* rows of a trade table in the sector scenarios
MaxSectorTrades == 3

\* rows of a sector metrics table
MaxGateRows == 1

\* business-day ordinals 1..MaxDay
MaxDay == 2

\* a return r stands for r / RetScale
RetScale == 10

Days == 1..MaxDay
Scores == {NaN, 1, 2}
Rets == {-1, 2}
RuleKeys == {1, 2}
Sectors == {1, 2}
MetricLevels == {0, 1}

----------------------------------------------------------------------------
(* Helpers *)

Range(s) == {s[i] : i \in DOMAIN s}

NoDup(s) == \A i, j \in DOMAIN s : i # j => s[i] # s[j]

Min(S) == CHOOSE x \in S : \A y \in S : x <= y

Max(S) == CHOOSE x \in S : \A y \in S : x >= y

RECURSIVE SumOver(_, _)
SumOver(f, S) ==
    IF S = {} THEN 0
    ELSE LET x == CHOOSE y \in S : TRUE
         IN f[x] + SumOver(f, S \ {x})

\* all orderings of the elements of a finite set
RECURSIVE PermSeqs(_)
PermSeqs(S) ==
    IF S = {} THEN {<<>>}
    ELSE UNION {{<<x>> \o p : p \in PermSeqs(S \ {x})} : x \in S}

----------------------------------------------------------------------------
(* Input tables.  A table is listed once per multiset of rows: rows are    *)
(* enumerated in nondecreasing RowKey order.  The simulator reads the row  *)
(* order only through sort_values, whose order of equal keys is left open  *)
(* below.                                                                  *)

Trade(e, x, r, q, a, k, g) ==
    [entry_date |-> e, exit_date |-> x, ret |-> r,
     rule_quality_score |-> q, avg_ret |-> a, rule |-> k, group |-> g]

RowKey(tr) ==
    (((((tr.entry_date * 10 + tr.exit_date) * 10 + tr.rule_quality_score) * 10
        + tr.avg_ret) * 10 + (tr.ret + 1)) * 10 + tr.rule) * 10 + tr.group

SortedTables(T, n) ==
    {t \in [1..n -> T] : \A i \in 1..(n - 1) : RowKey(t[i]) <= RowKey(t[i + 1])}

TablesUpTo(T, n) == UNION {SortedTables(T, k) : k \in 0..n}

\* exit dates a trade entered on day e can carry: open, or closed on e or later
ExitDates(e) == {NaT} \cup {x \in 1..MaxDay : x >= e}

WellFormed(tr) ==
    /\ tr.exit_date \in ExitDates(tr.entry_date)
    /\ (tr.exit_date = NaT) <=> (tr.ret = NaN)

\* admission scenarios: two days, scores vary, every closed trade returns
\* +1 unit
AdmissionDays == {1, 2}

AdmissionRows ==
    {Trade(e, x, IF x = NaT THEN NaN ELSE 1, q, NaN, 1, 1) :
        e \in AdmissionDays, x \in AdmissionDays \cup {NaT}, q \in Scores}

\* fallback scenarios: no row carries a score, the table has an avg_ret column
FallbackRows ==
    {Trade(1, NaT, NaN, NaN, a, 1, 1) : a \in {NaN, 1, 2}}

\* equity scenarios: returns and dates vary, no row carries a score
EquityRows ==
    {Trade(e, x, r, NaN, NaN, 1, 1) :
        e \in Days, x \in Days \cup {NaT}, r \in Rets \cup {NaN}}

\* rule-matching scenarios: the RuleKey varies
KeyRows ==
    {Trade(1, x, IF x = NaT THEN NaN ELSE 1, 1, NaN, k, 1) :
        x \in {NaT, MaxDay}, k \in RuleKeys}

AllCols == [trades_key |-> TRUE, rules_key |-> TRUE, rules_meta |-> TRUE,
            avg_ret |-> FALSE]

ColFlags == [trades_key : BOOLEAN, rules_key : BOOLEAN, rules_meta : BOOLEAN,
             avg_ret : {FALSE}]

----------------------------------------------------------------------------
(* Results *)

NoMetrics == <<>>

Returned(status, equity, summary, used) ==
    [status |-> status, equity_curve |-> equity, metrics |-> summary,
     used_trades |-> used]

NotReturned == Returned("running", <<>>, NoMetrics, <<>>)

EmptyResult == Returned("returned", <<>>, NoMetrics, <<>>)

Raised(exc) == Returned(exc, <<>>, NoMetrics, <<>>)

----------------------------------------------------------------------------
(* Initial states *)

\* the parts of the state a run has not touched yet
PortfolioIdle ==
    /\ selected = <<>>
    /\ open_trades = <<>>
    /\ used_trades = <<>>
    /\ result = NotReturned

SectorIdle == daily = <<>>

GateIdle ==
    /\ strict_params = <<>>
    /\ metrics = <<>>
    /\ investable_flags = <<>>
    /\ investable_reasons = <<>>

ScorerIdle ==
    /\ quality_args = <<>>
    /\ quality = <<>>
    /\ rule_params = <<>>
    /\ rule_ids = <<>>

DetectorIdle ==
    /\ detect_args = <<>>
    /\ end_idx = 0
    /\ universe = <<>>
    /\ fingerprint = <<>>
    /\ sector_param_grid = <<>>

EngineIdle ==
    /\ series = <<>>
    /\ signals = <<>>
    /\ trades_df = <<>>
    /\ scores_df = <<>>
    /\ scored_rules = <<>>
    /\ trades_with_id = <<>>
    /\ stability_df = <<>>

InitState ==
    /\ pc = "call"
    /\ day = 0
    /\ last_day = 0
    /\ PortfolioIdle
    /\ DetectorIdle
    /\ SectorIdle
    /\ GateIdle
    /\ ScorerIdle
    /\ EngineIdle

InitAdmission ==
    /\ trades \in SortedTables({tr \in AdmissionRows : WellFormed(tr)},
                               MaxTrades)
    /\ best_rules = {1}
    /\ cols = AllCols

InitFallback ==
    /\ trades \in SortedTables(FallbackRows, MaxTrades)
    /\ best_rules = {1}
    /\ cols = [AllCols EXCEPT !.avg_ret = TRUE]

InitEquity ==
    /\ trades \in TablesUpTo({tr \in EquityRows : WellFormed(tr)},
                             MaxEqTrades) \ {<<>>}
    /\ best_rules = {1}
    /\ cols = AllCols

InitKeys ==
    /\ trades \in TablesUpTo(KeyRows, MaxKeyTrades)
    /\ best_rules \in SUBSET RuleKeys
    /\ cols \in ColFlags

Init == InitState /\ (InitAdmission \/ InitFallback \/ InitEquity \/ InitKeys)

----------------------------------------------------------------------------
(* _daily_returns_from_trades and the equity curve *)

Frac(n, d) == [num |-> n, den |-> d]

RECURSIVE SumRet(_)
SumRet(s) == IF s = <<>> THEN 0 ELSE trades[Head(s)].ret + SumRet(Tail(s))

\* mutant of DailyReturnOn: the return is booked on the entry day
DailyReturnOnEntry(closed, d) ==
    LET IsOpen(id) == trades[id].entry_date <= d /\ trades[id].exit_date >= d
        IsEntry(id) == trades[id].entry_date = d
        n_open  == Len(SelectSeq(closed, IsOpen))
        exiting == SelectSeq(closed, IsEntry)
    IN IF n_open = 0 THEN Frac(0, 1)
       ELSE IF exiting # <<>> THEN Frac(SumRet(exiting), n_open)
       ELSE Frac(0, 1)

DailyReturnOn(closed, d) ==
    LET IsOpen(id) == trades[id].entry_date <= d /\ trades[id].exit_date >= d
        IsExit(id) == trades[id].exit_date = d
        n_open  == Len(SelectSeq(closed, IsOpen))
        exiting == SelectSeq(closed, IsExit)
    IN IF n_open = 0 THEN Frac(0, 1)
       ELSE IF exiting # <<>> THEN Frac(SumRet(exiting), n_open)
       ELSE Frac(0, 1)

\* mutant of daily_returns_from_trades: the trades without an exit date count
\* among the open trades of a day
daily_returns_counting_open(used) ==
    LET IsClosed(id) == trades[id].exit_date # NaT
        closed == SelectSeq(used, IsClosed)
        Extra(d) == Len(SelectSeq(used, LAMBDA id : /\ trades[id].exit_date = NaT
                                                     /\ trades[id].entry_date <= d))
        Widen(f, d) == IF f.num = 0 THEN f ELSE Frac(f.num, f.den + Extra(d))
    IN IF closed = <<>> THEN <<>>
       ELSE LET start == Min({trades[id].entry_date : id \in Range(closed)})
                end   == Max({trades[id].exit_date : id \in Range(closed)})
            IN [d \in start..end |-> Widen(DailyReturnOn(closed, d), d)]

daily_returns_from_trades(used) ==
    LET IsClosed(id) == trades[id].exit_date # NaT
        closed == SelectSeq(used, IsClosed)
    IN IF closed = <<>> THEN <<>>
       ELSE LET start == Min({trades[id].entry_date : id \in Range(closed)})
                end   == Max({trades[id].exit_date : id \in Range(closed)})
            IN [d \in start..end |-> DailyReturnOn(closed, d)]

\* (1.0 + daily_ret).cumprod(), as exact fractions
RECURSIVE CumProd(_, _)
CumProd(daily_ret, d) ==
    LET r == daily_ret[d]
        f == Frac(r.den * RetScale + r.num, r.den * RetScale)
    IN IF d = Min(DOMAIN daily_ret) THEN f
       ELSE LET prev == CumProd(daily_ret, d - 1)
            IN Frac(prev.num * f.num, prev.den * f.den)

EquityCurve(daily_ret) ==
    IF DOMAIN daily_ret = {} THEN <<>>
    ELSE [d \in DOMAIN daily_ret |-> CumProd(daily_ret, d)]

\* the metrics dict: empty, or n_trades and total_return; cagr, volatility,
\* sharpe, sortino, max_drawdown and avg_concurrent_trades are floating-point
\* functions of the same curve and are not carried
Metrics(equity, used) ==
    IF DOMAIN equity = {} THEN NoMetrics
    ELSE LET last == equity[Max(DOMAIN equity)]
         IN <<Len(used), Frac(last.num - last.den, last.den)>>

----------------------------------------------------------------------------
(* _run_static_portfolio: the day loop *)

\* tr["exit_date"] < day; a comparison with NaT is False
\* mutant of ExitedBefore: a trade is released on its exit date
ExitedOnOrBefore(id, d) ==
    trades[id].exit_date # NaT /\ trades[id].exit_date <= d

\* mutant of ExitedBefore: an absent exit date compares as the earliest date
ExitedBeforeOrAbsent(id, d) == trades[id].exit_date < d

ExitedBefore(id, d) == trades[id].exit_date # NaT /\ trades[id].exit_date < d

\* rows a descending sort_values(col) may return: NaN last, equal keys in
\* any order (the default kind, quicksort, is not stable)
RECURSIVE SortDescending(_, _)
SortDescending(ids, key) ==
    LET MayLead(x) ==
            \A y \in ids : \/ key[y] = NaN
                           \/ (key[x] # NaN /\ key[x] >= key[y])
    IN IF ids = {} THEN {<<>>}
       ELSE UNION {{<<x>> \o p : p \in SortDescending(ids \ {x}, key)} :
                   x \in {y \in ids : MayLead(y)}}

\* mutant of TodaysIds: a trade refused earlier is offered again
TodaysIdsBackfill(d) ==
    {id \in Range(selected) :
        /\ trades[id].entry_date <= d
        /\ id \notin Range(open_trades) \cup Range(used_trades)}

\* the rows of trades[trades["entry_date"] == day]
TodaysIds(d) == {id \in Range(selected) : trades[id].entry_date = d}

\* todays, in the order sort_values("entry_date") (line 107) left the rows
\* of that day: quicksort, so rows of equal entry_date come in any order
TodaysRows(d) == PermSeqs(TodaysIds(d))

\* the columns todays is sorted by
Score == [id \in DOMAIN trades |-> trades[id].rule_quality_score]

AvgRet == [id \in DOMAIN trades |-> trades[id].avg_ret]

\* mutant of SortTodays: the day's rows are admitted in table order
SortTodaysUnsorted(d) == TodaysRows(d)

\* the sort of lines 128-131 returns the same orders for every order of its
\* argument, so it is applied to the day's rows as a set
SortTodays(d) ==
    IF \E id \in TodaysIds(d) : Score[id] # NaN
        THEN SortDescending(TodaysIds(d), Score)
    ELSE IF cols.avg_ret
        THEN SortDescending(TodaysIds(d), AvgRet)
    ELSE TodaysRows(d)

\* mutant of Admit: the capacity test is off by one
RECURSIVE AdmitOffByOne(_, _)
AdmitOffByOne(open, todays) ==
    IF todays = <<>> THEN open
    ELSE IF Len(open) <= MAX_CONCURRENT_TRADES
        THEN AdmitOffByOne(Append(open, Head(todays)), Tail(todays))
    ELSE AdmitOffByOne(open, Tail(todays))

RECURSIVE Admit(_, _)
Admit(open, todays) ==
    IF todays = <<>> THEN open
    ELSE IF Len(open) < MAX_CONCURRENT_TRADES
        THEN Admit(Append(open, Head(todays)), Tail(todays))
    ELSE Admit(open, Tail(todays))

----------------------------------------------------------------------------
(* Actions *)

\* mutant of RunPortfolio: the column check comes before the emptiness test
RunPortfolioChecksFirst ==
    /\ pc = "call"
    /\ IF ~cols.trades_key \/ ~cols.rules_key \/ ~cols.rules_meta
           THEN /\ result' = Raised("KeyError")
                /\ pc' = "done"
                /\ UNCHANGED selected
       ELSE IF trades = <<>> \/ best_rules = {}
           THEN /\ result' = EmptyResult
                /\ pc' = "done"
                /\ UNCHANGED selected
       ELSE /\ selected' = SelectSeq([i \in DOMAIN trades |-> i],
                                     LAMBDA i : trades[i].rule \in best_rules)
            /\ pc' = "static"
            /\ UNCHANGED result
    /\ UNCHANGED <<trades, detector_vars, best_rules, cols, day, last_day,
                   open_trades, used_trades, sector_vars, gate_vars,
                   scorer_vars, engine_vars>>

RunPortfolio ==
    /\ pc = "call"
    /\ IF trades = <<>> \/ best_rules = {}
           THEN /\ result' = EmptyResult
                /\ pc' = "done"
                /\ UNCHANGED selected
       ELSE IF ~cols.trades_key \/ ~cols.rules_key \/ ~cols.rules_meta
           THEN /\ result' = Raised("KeyError")
                /\ pc' = "done"
                /\ UNCHANGED selected
       ELSE /\ selected' = SelectSeq([i \in DOMAIN trades |-> i],
                                     LAMBDA i : trades[i].rule \in best_rules)
            /\ pc' = "static"
            /\ UNCHANGED result
    /\ UNCHANGED <<trades, detector_vars, best_rules, cols, day, last_day,
                   open_trades, used_trades, sector_vars, gate_vars,
                   scorer_vars, engine_vars>>

StartStatic ==
    /\ pc = "static"
    /\ LET all_dates ==
               {trades[id].entry_date : id \in Range(selected)}
               \cup {trades[id].exit_date :
                       id \in {i \in Range(selected) : trades[i].exit_date # NaT}}
       IN IF all_dates = {}
              THEN /\ result' = Raised("IndexError")
                   /\ pc' = "done"
                   /\ UNCHANGED <<day, last_day>>
          ELSE /\ day' = Min(all_dates) - 1
               /\ last_day' = Max(all_dates)
               /\ pc' = "loop"
               /\ UNCHANGED result
    /\ UNCHANGED <<trades, detector_vars, best_rules, cols, selected, open_trades, used_trades,
                   sector_vars, gate_vars,
                   scorer_vars, engine_vars>>

SimulateDay ==
    /\ pc = "loop"
    /\ LET d == day + 1
           released   == SelectSeq(open_trades, LAMBDA id : ExitedBefore(id, d))
           still_open == SelectSeq(open_trades, LAMBDA id : ~ExitedBefore(id, d))
       IN /\ open_trades' \in {Admit(still_open, todays) : todays \in SortTodays(d)}
          /\ used_trades' = used_trades \o released
          /\ day' = d
          /\ pc' = IF d = last_day THEN "flush" ELSE "loop"
    /\ UNCHANGED <<trades, detector_vars, best_rules, cols, selected, last_day, result,
                   sector_vars, gate_vars,
                   scorer_vars, engine_vars>>

\* mutant of TerminalFlush: the trades still open are not flushed
TerminalFlushMissing ==
    /\ pc = "flush"
    /\ pc' = "result"
    /\ UNCHANGED <<trades, detector_vars, best_rules, cols, selected, day, last_day,
                   open_trades, used_trades, result, sector_vars, gate_vars,
                   scorer_vars, engine_vars>>

TerminalFlush ==
    /\ pc = "flush"
    /\ used_trades' = used_trades \o open_trades
    /\ pc' = "result"
    /\ UNCHANGED <<trades, detector_vars, best_rules, cols, selected, day, last_day,
                   open_trades, result, sector_vars, gate_vars,
                   scorer_vars, engine_vars>>

BuildResult ==
    /\ pc = "result"
    /\ IF used_trades = <<>>
           THEN result' = Returned("returned", <<>>, NoMetrics, used_trades)
       ELSE LET daily_ret == daily_returns_from_trades(used_trades)
                equity    == EquityCurve(daily_ret)
            IN result' = Returned("returned", equity,
                                  Metrics(equity, used_trades), used_trades)
    /\ pc' = "done"
    /\ UNCHANGED <<trades, detector_vars, best_rules, cols, selected, day, last_day,
                   open_trades, used_trades, sector_vars, gate_vars,
                   scorer_vars, engine_vars>>

Next ==
    \/ RunPortfolio
    \/ StartStatic
    \/ SimulateDay
    \/ TerminalFlush
    \/ BuildResult

Spec == Init /\ [][Next]_vars

----------------------------------------------------------------------------
(* SpecSector: _compute_sector_daily_returns *)

\* sector scenarios: group, dates and returns vary
SectorRows ==
    {Trade(e, x, r, NaN, NaN, 1, g) :
        e \in Days, x \in Days \cup {NaT}, r \in Rets \cup {NaN}, g \in Sectors}

InitSector ==
    /\ trades \in TablesUpTo({tr \in SectorRows : WellFormed(tr)},
                             MaxSectorTrades) \ {<<>>}
    /\ pc = "sector"
    /\ day = 0
    /\ last_day = 0
    /\ best_rules = {}
    /\ cols = AllCols
    /\ PortfolioIdle
    /\ DetectorIdle
    /\ SectorIdle
    /\ GateIdle
    /\ ScorerIdle
    /\ EngineIdle

\* closed = trades[trades["exit_date"].notna()], as row ids in table order
ClosedRows ==
    SelectSeq([i \in DOMAIN trades |-> i], LAMBDA i : trades[i].exit_date # NaT)

\* mutant of SectorReturnOn: the weight counts the open trades of all sectors
SectorReturnOnAllSectors(closed, sector, d) ==
    LET IsOpen(id) == trades[id].entry_date <= d /\ trades[id].exit_date >= d
        InSector(id) == trades[id].group = sector
        IsExit(id) == trades[id].exit_date = d
        day_trades == SelectSeq(closed, IsOpen)
        sec_trades == SelectSeq(day_trades, InSector)
        exits      == SelectSeq(sec_trades, IsExit)
    IN IF day_trades = <<>> \/ sec_trades = <<>> THEN Frac(0, 1)
       ELSE IF exits # <<>> THEN Frac(SumRet(exits), Len(day_trades))
       ELSE Frac(0, 1)

\* the cell daily.loc[day, sector] after the loop body for that day
SectorReturnOn(closed, sector, d) ==
    LET IsOpen(id) == trades[id].entry_date <= d /\ trades[id].exit_date >= d
        InSector(id) == trades[id].group = sector
        IsExit(id) == trades[id].exit_date = d
        day_trades == SelectSeq(closed, IsOpen)
        sec_trades == SelectSeq(day_trades, InSector)
        exits      == SelectSeq(sec_trades, IsExit)
    IN IF day_trades = <<>> \/ sec_trades = <<>> THEN Frac(0, 1)
       ELSE IF exits # <<>> THEN Frac(SumRet(exits), Len(sec_trades))
       ELSE Frac(0, 1)

SectorStart ==
    /\ pc = "sector"
    /\ IF ClosedRows = <<>>
           THEN /\ daily' = <<>>
                /\ pc' = "sector_done"
                /\ UNCHANGED <<day, last_day>>
       ELSE LET start   == Min({trades[id].entry_date : id \in Range(ClosedRows)})
                end     == Max({trades[id].exit_date : id \in Range(ClosedRows)})
                sectors == {trades[id].group : id \in Range(ClosedRows)}
            IN /\ daily' = [d \in start..end |-> [g \in sectors |-> Frac(0, 1)]]
               /\ day' = start - 1
               /\ last_day' = end
               /\ pc' = "sector_loop"
    /\ UNCHANGED <<trades, detector_vars, portfolio_vars, gate_vars, scorer_vars, engine_vars>>

SectorDay ==
    /\ pc = "sector_loop"
    /\ LET d == day + 1
       IN /\ daily' = [daily EXCEPT ![d] =
                          [g \in DOMAIN daily[d] |-> SectorReturnOn(ClosedRows, g, d)]]
          /\ day' = d
          /\ pc' = IF d = last_day THEN "sector_done" ELSE "sector_loop"
    /\ UNCHANGED <<trades, detector_vars, last_day, portfolio_vars, gate_vars, scorer_vars,
                   engine_vars>>


----------------------------------------------------------------------------
(* SpecGate: compute_investable_sectors applying                           *)
(* _evaluate_sector_weighted_strict to the rows of the metrics table.  The *)
(* statistics of a row are floating-point values; the gate only compares   *)
(* them with the floors, so rows and floors are drawn from MetricLevels.   *)

MetricNames == {"mean", "win_rate", "sharpe", "sortino", "stability", "max_dd"}

FloorNames == {"min_mean", "min_win_rate", "min_sharpe", "min_sortino",
               "min_stability", "min_max_dd"}

InitGate ==
    /\ strict_params \in [FloorNames -> MetricLevels]
    /\ metrics \in UNION {[1..n -> [MetricNames -> MetricLevels]] :
                            n \in 0..MaxGateRows}
    /\ investable_flags = <<>>
    /\ investable_reasons = <<>>
    /\ pc = "gate"
    /\ trades = <<>>
    /\ day = 0
    /\ last_day = 0
    /\ best_rules = {}
    /\ cols = AllCols
    /\ PortfolioIdle
    /\ DetectorIdle
    /\ SectorIdle
    /\ ScorerIdle
    /\ EngineIdle

\* one "if row[...] < p[...]: ok = False; reasons.append(...)"
Check(st, failed, reason) ==
    IF failed THEN [ok |-> FALSE, reasons |-> Append(st.reasons, reason)]
    ELSE st

\* mutant of evaluate_sector_weighted_strict: the win-rate test is <=
evaluate_sector_win_rate_le(row) ==
    LET q  == strict_params
        s0 == [ok |-> TRUE, reasons |-> <<>>]
        s1 == Check(s0, row.mean < q.min_mean, "mean return is not positive")
        s2 == Check(s1, row.win_rate <= q.min_win_rate, "win rate is below 50%")
        s3 == Check(s2, row.sharpe < q.min_sharpe, "Sharpe is too weak")
        s4 == Check(s3, row.sortino < q.min_sortino, "Sortino is too weak")
        s5 == Check(s4, row.stability < q.min_stability,
                    "stability score is too weak")
        s6 == Check(s5, row.max_dd < q.min_max_dd, "max drawdown is too deep")
    IN s6

\* mutant of evaluate_with_floors: the mean test is reversed
evaluate_mean_reversed(row, q) ==
    LET s0 == [ok |-> TRUE, reasons |-> <<>>]
        s1 == Check(s0, row.mean > q.min_mean, "mean return is not positive")
        s2 == Check(s1, row.win_rate < q.min_win_rate, "win rate is below 50%")
        s3 == Check(s2, row.sharpe < q.min_sharpe, "Sharpe is too weak")
        s4 == Check(s3, row.sortino < q.min_sortino, "Sortino is too weak")
        s5 == Check(s4, row.stability < q.min_stability,
                    "stability score is too weak")
        s6 == Check(s5, row.max_dd < q.min_max_dd, "max drawdown is too deep")
    IN s6

\* the body of _evaluate_sector_weighted_strict with its floors p = q
evaluate_with_floors(row, q) ==
    LET s0 == [ok |-> TRUE, reasons |-> <<>>]
        s1 == Check(s0, row.mean < q.min_mean, "mean return is not positive")
        s2 == Check(s1, row.win_rate < q.min_win_rate, "win rate is below 50%")
        s3 == Check(s2, row.sharpe < q.min_sharpe, "Sharpe is too weak")
        s4 == Check(s3, row.sortino < q.min_sortino, "Sortino is too weak")
        s5 == Check(s4, row.stability < q.min_stability,
                    "stability score is too weak")
        s6 == Check(s5, row.max_dd < q.min_max_dd, "max drawdown is too deep")
    IN s6

\* "p = SECTOR_STRICT_PARAMS"
evaluate_sector_weighted_strict(row) == evaluate_with_floors(row, strict_params)

\* one iteration of "for _, row in metrics.iterrows()"
EvaluateRow ==
    /\ pc = "gate"
    /\ Len(investable_flags) < Len(metrics)
    /\ LET row == metrics[Len(investable_flags) + 1]
           ev  == evaluate_sector_weighted_strict(row)
       IN /\ investable_flags' = Append(investable_flags, ev.ok)
          /\ investable_reasons' = Append(investable_reasons, ev.reasons)
    /\ UNCHANGED <<trades, detector_vars, pc, day, last_day, portfolio_vars, sector_vars,
                   scorer_vars, engine_vars, strict_params, metrics>>

\* "if metrics.empty: return metrics", else the two column assignments
AssignColumns ==
    /\ pc = "gate"
    /\ Len(investable_flags) = Len(metrics)
    /\ metrics' = [i \in DOMAIN metrics |->
                      metrics[i] @@ [is_investable |-> investable_flags[i],
                                     investable_reasons |-> investable_reasons[i]]]
    /\ pc' = "gate_done"
    /\ UNCHANGED <<trades, detector_vars, day, last_day, portfolio_vars, sector_vars,
                   scorer_vars, engine_vars, strict_params, investable_flags,
                   investable_reasons>>

NextGate == EvaluateRow \/ AssignColumns

SpecGate == InitGate /\ [][NextGate]_vars

----------------------------------------------------------------------------
(* SpecQuality: _compute_rule_quality as a function of its four arguments. *)
(* Floats are exact fractions [num, den] with den > 0; not-a-number is the *)
(* fraction 0/0.  Rounding of the float operations is not carried.         *)

\* "if n_trades < 50"
PenaltyLowBelow == 50

\* "elif n_trades < 200"
PenaltyMidBelow == 200

\* penalty 0.5, 0.8 and 1.0, in tenths
PenaltyLow == 5

PenaltyMid == 8

PenaltyFull == 10

PenaltyScale == 10

\* the floor 1e-6 is 1 / DdFloorInv
DdFloorInv == 1000000

QNaN == Frac(0, 0)

IsNaN(a) == a.den = 0

Abs(n) == IF n < 0 THEN -n ELSE n

RECURSIVE Gcd(_, _)
Gcd(m, n) == IF n = 0 THEN m ELSE Gcd(n, m % n)

\* a fraction in lowest terms
Reduced(a) ==
    IF a.den = 0 THEN a
    ELSE LET g == Gcd(Abs(a.num), a.den) IN Frac(a.num \div g, a.den \div g)

\* arithmetic and comparison of floats; any operation on not-a-number gives
\* not-a-number, any comparison with it is false
FracMul(a, b) ==
    IF IsNaN(a) \/ IsNaN(b) THEN QNaN
    ELSE Reduced(Frac(a.num * b.num, a.den * b.den))

FracDiv(a, b) ==
    IF IsNaN(a) \/ IsNaN(b) THEN QNaN
    ELSE LET x == Reduced(Frac(a.num, a.den * Abs(b.num)))
             y == IF b.num < 0 THEN -b.den ELSE b.den
         IN Reduced(Frac(x.num * y, x.den))

FracAbs(a) == IF IsNaN(a) THEN QNaN ELSE Frac(Abs(a.num), a.den)

FracGt(a, b) == ~IsNaN(a) /\ ~IsNaN(b) /\ a.num * b.den > b.num * a.den

\* Python's max(a, b): b if b > a, else a
PyMax(a, b) == IF FracGt(b, a) THEN b ELSE a

AvgRetArgs == {Frac(2, 100), Frac(-2, 100), Frac(0, 1), QNaN}

WinRateArgs == {Frac(6, 10), Frac(0, 1), Frac(1, 1)}

MaxDdArgs == {Frac(-5, 100), Frac(5, 100), Frac(0, 1), QNaN}

NTradesArgs == {1, 30, 49, 50, 199, 200}

InitQuality ==
    /\ quality_args \in [avg_ret : AvgRetArgs, win_rate : WinRateArgs,
                         max_dd : MaxDdArgs, n_trades : NTradesArgs]
    /\ quality = <<>>
    /\ rule_params = <<>>
    /\ rule_ids = <<>>
    /\ pc = "quality"
    /\ trades = <<>>
    /\ day = 0
    /\ last_day = 0
    /\ best_rules = {}
    /\ cols = AllCols
    /\ PortfolioIdle
    /\ DetectorIdle
    /\ SectorIdle
    /\ GateIdle
    /\ EngineIdle

\* mutant of compute_rule_quality: the boundaries 50 and 200 fall in the
\* lower tier
compute_rule_quality_le(avg_ret, win_rate, max_dd, n_trades) ==
    LET penalty == IF n_trades <= PenaltyLowBelow
                       THEN Frac(PenaltyLow, PenaltyScale)
                   ELSE IF n_trades <= PenaltyMidBelow
                       THEN Frac(PenaltyMid, PenaltyScale)
                   ELSE Frac(PenaltyFull, PenaltyScale)
        dd_term == PyMax(Frac(1, DdFloorInv), FracAbs(max_dd))
    IN FracDiv(FracMul(FracMul(avg_ret, win_rate), penalty), dd_term)

\* mutant of compute_rule_quality: the worst return divides with its sign
compute_rule_quality_signed(avg_ret, win_rate, max_dd, n_trades) ==
    LET penalty == IF n_trades < PenaltyLowBelow
                       THEN Frac(PenaltyLow, PenaltyScale)
                   ELSE IF n_trades < PenaltyMidBelow
                       THEN Frac(PenaltyMid, PenaltyScale)
                   ELSE Frac(PenaltyFull, PenaltyScale)
    IN FracDiv(FracMul(FracMul(avg_ret, win_rate), penalty), max_dd)

compute_rule_quality(avg_ret, win_rate, max_dd, n_trades) ==
    LET penalty == IF n_trades < PenaltyLowBelow
                       THEN Frac(PenaltyLow, PenaltyScale)
                   ELSE IF n_trades < PenaltyMidBelow
                       THEN Frac(PenaltyMid, PenaltyScale)
                   ELSE Frac(PenaltyFull, PenaltyScale)
        dd_term == PyMax(Frac(1, DdFloorInv), FracAbs(max_dd))
    IN FracDiv(FracMul(FracMul(avg_ret, win_rate), penalty), dd_term)

ComputeRuleQuality ==
    /\ pc = "quality"
    /\ quality' = compute_rule_quality(quality_args.avg_ret,
                                       quality_args.win_rate,
                                       quality_args.max_dd,
                                       quality_args.n_trades)
    /\ pc' = "quality_done"
    /\ UNCHANGED <<trades, detector_vars, day, last_day, portfolio_vars, sector_vars,
                   gate_vars, quality_args, rule_params, rule_ids,
                   engine_vars>>

NextQuality == ComputeRuleQuality

SpecQuality == InitQuality /\ [][NextQuality]_vars

----------------------------------------------------------------------------
(* generate_rule_id and score_rules.  A dict is the sequence of its        *)
(* <<key, value>> items in insertion order.  SHA-1 is modelled as a        *)
(* collision-free numbering of the canonical strings: the digest of a      *)
(* string is the sequence of the codes of its items.                       *)

RULE_KEY_COLS ==
    <<"lookback", "group_thresh", "participation", "lagger_max_move",
      "entry_lag", "hold_days", "group">>

\* position of a key in the string order json.dumps(sort_keys=True) uses
KeyRank ==
    [entry_lag |-> 1, group |-> 2, group_thresh |-> 3, hold_days |-> 4,
     lagger_max_move |-> 5, lookback |-> 6, participation |-> 7]

\* one more than the largest field value of the model
DigestRadix == 16

\* the items of a dict ordered by key
RECURSIVE SortItems(_)
SortItems(items) ==
    IF items = <<>> THEN <<>>
    ELSE LET i == CHOOSE j \in DOMAIN items :
                      \A k \in DOMAIN items :
                          KeyRank[items[j][1]] <= KeyRank[items[k][1]]
         IN <<items[i]>> \o
                SortItems([k \in 1..(Len(items) - 1) |->
                              IF k < i THEN items[k] ELSE items[k + 1]])

\* json.dumps(rule_params, sort_keys=True)
JsonDumpsSorted(items) == SortItems(items)

\* hashlib.sha1(canonical).hexdigest()[:8].upper()
Sha1Short(canonical) ==
    [i \in DOMAIN canonical |->
        KeyRank[canonical[i][1]] * DigestRadix + canonical[i][2]]

\* mutant of generate_rule_id: json.dumps without sort_keys
generate_rule_id_unsorted(items) == <<"R_">> \o Sha1Short(items)

generate_rule_id(items) == <<"R_">> \o Sha1Short(JsonDumpsSorted(items))

----------------------------------------------------------------------------
(* SpecRuleId: generate_rule_id called on a dict, which callers may build  *)
(* again with its items inserted in another order.                         *)

\* the number of fields of the dict
MaxIdFields == 4

\* how often the identifier is computed
MaxIdCalls == 2

IdFields == {RULE_KEY_COLS[i] : i \in 1..Min({MaxIdFields, Len(RULE_KEY_COLS)})}

IdValues == {1, 2}

InitRuleId ==
    /\ rule_params \in UNION {PermSeqs({<<f, v[f]>> : f \in IdFields}) :
                                 v \in [IdFields -> IdValues]}
    /\ rule_ids = <<>>
    /\ quality_args = <<>>
    /\ quality = <<>>
    /\ pc = "rule_id"
    /\ trades = <<>>
    /\ day = 0
    /\ last_day = 0
    /\ best_rules = {}
    /\ cols = AllCols
    /\ PortfolioIdle
    /\ DetectorIdle
    /\ SectorIdle
    /\ GateIdle
    /\ EngineIdle

\* one call generate_rule_id(rule_params); the call is recorded with the
\* key the dict it was given starts with
GenerateRuleId ==
    /\ pc = "rule_id"
    /\ Len(rule_ids) < MaxIdCalls
    /\ rule_ids' = Append(rule_ids, [first |-> rule_params[1][1],
                                     rule_id |-> generate_rule_id(rule_params)])
    /\ UNCHANGED <<trades, detector_vars, pc, day, last_day, portfolio_vars, sector_vars,
                   gate_vars, quality_args, quality, rule_params, engine_vars>>

\* the caller builds the dict again with two neighbouring items inserted in
\* the opposite order
RebuildParams ==
    /\ pc = "rule_id"
    /\ \E i \in 1..(Len(rule_params) - 1) :
          rule_params' = [rule_params EXCEPT ![i] = rule_params[i + 1],
                                             ![i + 1] = rule_params[i]]
    /\ UNCHANGED <<trades, detector_vars, pc, day, last_day, portfolio_vars, sector_vars,
                   gate_vars, quality_args, quality, rule_ids, engine_vars>>

NextRuleId == GenerateRuleId \/ RebuildParams

SpecRuleId == InitRuleId /\ [][NextRuleId]_vars

----------------------------------------------------------------------------
(* SpecScore: score_rules on a trade table, then compute_rule_stability.   *)
(* A row carries the columns the two functions read: the seven RuleKey     *)
(* columns, ret and exit_date.  exit_date is a calendar day number here.   *)

\* the largest trade table of the scoring runs
MaxScoreTrades == 3

\* the largest trade table of the runs that vary the exit dates
MaxWindowTrades == 2

RuleKey(lb, gt, part, lag, elag, hold, g) ==
    [lookback |-> lb, group_thresh |-> gt, participation |-> part,
     lagger_max_move |-> lag, entry_lag |-> elag, hold_days |-> hold,
     group |-> g]

ScoreKeys == {RuleKey(1, 3, 1, 2, 0, 3, 1), RuleKey(1, 3, 1, 2, 0, 5, 1),
              RuleKey(1, 3, 1, 2, 0, 3, 2)}

ScoreRets == {Frac(-1, 2), Frac(0, 1), Frac(1, 2), QNaN}

\* "last_date - pd.Timedelta(days=90)" and "days=30" of compute_rule_stability
Prev90Days == 90

Prev30Days == 30

ExitDays == {1, 50, 100}

ScoreRow(k, r, x) == k @@ [ret |-> r, exit_date |-> x]

\* the trade generator leaves exit_date and ret absent together
ScoreRows ==
    {ScoreRow(k, r, IF IsNaN(r) THEN NaT ELSE 1) : k \in ScoreKeys, r \in ScoreRets}

WindowRows ==
    {ScoreRow(k, r, x) : k \in {RuleKey(1, 3, 1, 2, 0, 3, 1),
                                RuleKey(1, 3, 1, 2, 0, 5, 1)},
                         r \in {Frac(-1, 2), Frac(1, 2)}, x \in ExitDays}

TablesOver(T, n) == UNION {[1..k -> T] : k \in 0..n}

InitScore ==
    /\ trades_df \in TablesOver(ScoreRows, MaxScoreTrades)
                        \cup TablesOver(WindowRows, MaxWindowTrades)
    /\ series = <<>>
    /\ signals = <<>>
    /\ scores_df = <<>>
    /\ scored_rules = <<>>
    /\ trades_with_id = <<>>
    /\ stability_df = <<>>
    /\ pc = "score"
    /\ trades = <<>>
    /\ day = 0
    /\ last_day = 0
    /\ best_rules = {}
    /\ cols = AllCols
    /\ PortfolioIdle
    /\ DetectorIdle
    /\ SectorIdle
    /\ GateIdle
    /\ ScorerIdle

\* the RuleKey of a row
KeyOf(row) == [c \in Range(RULE_KEY_COLS) |-> row[c]]

\* groupby(RULE_KEY_COLS) orders the groups by key tuple
KeyBefore(a, b) ==
    \E i \in DOMAIN RULE_KEY_COLS :
        /\ a[RULE_KEY_COLS[i]] < b[RULE_KEY_COLS[i]]
        /\ \A j \in 1..(i - 1) : a[RULE_KEY_COLS[j]] = b[RULE_KEY_COLS[j]]

RECURSIVE SortedKeys(_)
SortedKeys(S) ==
    IF S = {} THEN <<>>
    ELSE LET k == CHOOSE a \in S : \A b \in S \ {a} : KeyBefore(a, b)
         IN <<k>> \o SortedKeys(S \ {k})

GroupKeys(df) == SortedKeys({KeyOf(df[i]) : i \in DOMAIN df})

\* the ret column of one group, in table order
GroupRets(df, k) ==
    LET rows == SelectSeq(df, LAMBDA row : KeyOf(row) = k)
    IN [i \in DOMAIN rows |-> rows[i].ret]

FracAdd(a, b) ==
    IF IsNaN(a) \/ IsNaN(b) THEN QNaN
    ELSE Reduced(Frac(a.num * b.den + b.num * a.den, a.den * b.den))

Present(x) == SelectSeq(x, LAMBDA r : ~IsNaN(r))

RECURSIVE FracSum(_)
FracSum(x) ==
    IF x = <<>> THEN Frac(0, 1)
    ELSE IF Len(x) = 1 THEN x[1]
    ELSE LET half == Len(x) \div 2
         IN FracAdd(FracSum(SubSeq(x, 1, half)),
                    FracSum(SubSeq(x, half + 1, Len(x))))

\* "mean": not-a-number values are skipped; no value left gives not-a-number
NanMean(x) ==
    IF Present(x) = <<>> THEN QNaN
    ELSE FracDiv(FracSum(Present(x)), Frac(Len(Present(x)), 1))

\* x.min(): not-a-number values are skipped
NanMin(x) ==
    IF Present(x) = <<>> THEN QNaN
    ELSE LET p == Present(x)
             i == CHOOSE j \in DOMAIN p : \A k \in DOMAIN p : ~FracGt(p[j], p[k])
         IN p[i]

\* the number of values above zero; not-a-number is not above zero
Wins(x) == Len(SelectSeq(x, LAMBDA r : FracGt(r, Frac(0, 1))))

\* np.mean(x > 0.0): the mean of one boolean per row of the group
WinRateOverSize(x) == Reduced(Frac(Wins(x), Len(x)))

\* mutant of RuleParams: the group column is left out of the dict
RuleParamsNoGroup(row) ==
    [i \in 1..(Len(RULE_KEY_COLS) - 1) |->
        <<RULE_KEY_COLS[i], row[RULE_KEY_COLS[i]]>>]

\* {k: row[k] for k in RULE_KEY_COLS}
RuleParams(row) == [i \in DOMAIN RULE_KEY_COLS |->
                       <<RULE_KEY_COLS[i], row[RULE_KEY_COLS[i]]>>]

\* one row of the table score_rules returns: the named aggregations of one
\* group, its rule_id and its quality
Aggregate(df, k) ==
    LET x == GroupRets(df, k)
        n == Len(x)
        avg == NanMean(x)
        win == WinRateOverSize(x)
        dd == NanMin(x)
    IN k @@ [rule_id |-> generate_rule_id(RuleParams(k)), n_trades |-> n,
             avg_ret_full |-> avg, win_rate |-> win, max_dd |-> dd,
             rule_quality_score |-> compute_rule_quality(avg, win, dd, n)]

score_rules(df) ==
    LET keys == GroupKeys(df) IN [i \in DOMAIN keys |-> Aggregate(df, keys[i])]

\* a ret column holding None only is an object column, on which the
\* aggregations raise
AllRetAbsent(df) == df # <<>> /\ \A i \in DOMAIN df : IsNaN(df[i].ret)

\* scores_df = score_rules(trades_df).  What pandas makes of the named
\* aggregations on a table without rows depends on its version: the empty
\* table or an exception.
ScoreRules ==
    /\ pc = "score"
    /\ \/ /\ AllRetAbsent(trades_df)
          /\ pc' = "score_raised"
          /\ UNCHANGED scores_df
       \/ /\ trades_df = <<>>
          /\ pc' \in {"scored", "score_raised"}
          /\ UNCHANGED scores_df
       \/ /\ trades_df # <<>>
          /\ ~AllRetAbsent(trades_df)
          /\ scores_df' = score_rules(trades_df)
          /\ pc' = "scored"
    /\ UNCHANGED <<trades, detector_vars, day, last_day, portfolio_vars, sector_vars,
                   gate_vars, scorer_vars, series, signals, trades_df,
                   scored_rules, trades_with_id, stability_df>>

\* the rule_id a left merge leaves on a row without a match
NoRuleId == <<>>

\* the rows of the scored table with the key k, as the merge matches them
Matches(scored, k) == SelectSeq(scored, LAMBDA row : KeyOf(row) = k)

\* the two columns a left merge on RULE_KEY_COLS attaches to a row of key k
Attached(scored, k) ==
    IF Matches(scored, k) = <<>>
        THEN [rule_id |-> NoRuleId, rule_quality_score |-> QNaN]
    ELSE [rule_id |-> Matches(scored, k)[1].rule_id,
          rule_quality_score |-> Matches(scored, k)[1].rule_quality_score]

\* df[df["exit_date"].notna()]
ClosedOnly(df) == SelectSeq(df, LAMBDA row : row.exit_date # NaT)

\* the rows of df whose exit_date is at most n days before the last one
Trailing(df, n) ==
    LET last_date == Max({df[i].exit_date : i \in DOMAIN df})
    IN SelectSeq(df, LAMBDA row : row.exit_date >= last_date - n)

\* mutant of StabilityRow: a score of zero counts as investable
StabilityRowGe(df, scored, k) ==
    LET x == GroupRets(df, k)
        att == Attached(scored, k)
    IN k @@ [n_trades |-> Len(Present(x)),
             avg_ret_full |-> NanMean(x),
             win_rate |-> WinRateOverSize(x),
             max_dd |-> NanMin(x),
             avg_ret_prev_90d |-> NanMean(GroupRets(Trailing(df, Prev90Days), k)),
             avg_ret_prev_30d |-> NanMean(GroupRets(Trailing(df, Prev30Days), k)),
             rule_id |-> att.rule_id,
             rule_quality_score |-> att.rule_quality_score,
             is_investable |-> ~IsNaN(att.rule_quality_score)
                                  /\ att.rule_quality_score.num >= 0]

\* one row of stab: full-period statistics, the two trailing means, the
\* merged rule_id and score, and the flag
StabilityRow(df, scored, k) ==
    LET x == GroupRets(df, k)
        att == Attached(scored, k)
    IN k @@ [n_trades |-> Len(Present(x)),
             avg_ret_full |-> NanMean(x),
             win_rate |-> WinRateOverSize(x),
             max_dd |-> NanMin(x),
             avg_ret_prev_90d |-> NanMean(GroupRets(Trailing(df, Prev90Days), k)),
             avg_ret_prev_30d |-> NanMean(GroupRets(Trailing(df, Prev30Days), k)),
             rule_id |-> att.rule_id,
             rule_quality_score |-> att.rule_quality_score,
             is_investable |-> FracGt(att.rule_quality_score, Frac(0, 1))]

compute_rule_stability(tdf, sdf) ==
    IF tdf = <<>> \/ sdf = <<>> THEN <<>>
    ELSE LET df == ClosedOnly(tdf)
             keys == GroupKeys(df)
         IN [i \in DOMAIN keys |-> StabilityRow(df, sdf, keys[i])]

\* the scored tables a caller holds: the scorer's output, or the part of it
\* that covers one sector
ScoredTables(sdf) ==
    {sdf} \cup {SelectSeq(sdf, LAMBDA row : row.group = g) :
                   g \in {sdf[i].group : i \in DOMAIN sdf}}

\* stability_df = compute_rule_stability(trades_df, scores_df)
ComputeRuleStability ==
    /\ pc = "scored"
    /\ \E sdf \in ScoredTables(scores_df) :
          /\ scored_rules' = sdf
          /\ stability_df' = compute_rule_stability(trades_df, sdf)
    /\ pc' = "stability_done"
    /\ UNCHANGED <<trades, detector_vars, day, last_day, portfolio_vars, sector_vars,
                   gate_vars, scorer_vars, series, signals, trades_df,
                   scores_df, trades_with_id>>

NextScore == ScoreRules \/ ComputeRuleStability

SpecScore == InitScore /\ [][NextScore]_vars

----------------------------------------------------------------------------
(* SpecEngine: the two backtest_signals passes of run_engine with          *)
(* score_rules between them.  The series frame maps a ticker to its column  *)
(* of prices, here the one column of ticker 1; its index holds the business *)
(* days 1..N, so the row at 0-based position i carries the date i + 1.  The *)
(* leaders column is copied from the signal and read by nothing; it is not  *)
(* carried.                                                                 *)

\* the longest series
MaxRows == 5

\* the longest signal list
MaxSignals == 2

Prices == {1, 2}

Tickers == {1, 2}

Columns == {1}

\* len(series): the number of rows of a frame
Rows(frame) ==
    IF DOMAIN frame = {} THEN 0
    ELSE Len(frame[CHOOSE c \in DOMAIN frame : TRUE])

Directions == {1, -1}

\* (lookback, group_thresh, participation, lagger_max_move)
ParamSets == {<<1, 3, 1, 2>>, <<2, 3, 1, 2>>}

entry_lags == <<0, 1, 2, 3>>

holds == <<3, 5, 7, 10>>

Signal(t, g, d, sd, ps) ==
    [ticker |-> t, group |-> g, direction |-> d, signal_date |-> sd,
     lookback |-> ps[1], group_thresh |-> ps[2], participation |-> ps[3],
     lagger_max_move |-> ps[4]]

\* a series whose prices alternate
Zigzag(n) == [i \in 1..n |-> IF i % 2 = 1 THEN 1 ELSE 2]

\* one signal on a present ticker and date, over every price series
InitPrices ==
    /\ \E n \in (MaxRows - 1)..MaxRows : series \in [Columns -> [1..n -> Prices]]
    /\ \E d \in Directions, sd \in 1..Rows(series) :
          signals = <<Signal(1, 1, d, sd, <<1, 3, 1, 2>>)>>

\* signal lists over one series: signals on the first date, on the last
\* date and on a date the index lacks, on a present and on an absent ticker
InitSignals ==
    /\ series = [c \in Columns |-> Zigzag(MaxRows)]
    /\ signals \in UNION {[1..n -> {Signal(t, g, 1, sd, ps) :
                                       t \in Tickers, g \in Sectors,
                                       sd \in {1, MaxRows, MaxRows + 1},
                                       ps \in ParamSets}] :
                             n \in 0..MaxSignals}

InitEngine ==
    /\ InitPrices \/ InitSignals
    /\ trades_df = <<>>
    /\ scores_df = <<>>
    /\ scored_rules = <<>>
    /\ trades_with_id = <<>>
    /\ stability_df = <<>>
    /\ pc = "first_pass"
    /\ trades = <<>>
    /\ day = 0
    /\ last_day = 0
    /\ best_rules = {}
    /\ cols = AllCols
    /\ PortfolioIdle
    /\ DetectorIdle
    /\ SectorIdle
    /\ GateIdle
    /\ ScorerIdle

\* the distinct parameter tuples of the signals, in the set's iteration order
RECURSIVE SeqOfSet(_)
SeqOfSet(S) ==
    IF S = {} THEN <<>>
    ELSE LET x == CHOOSE y \in S : TRUE IN <<x>> \o SeqOfSet(S \ {x})

unique_param_sets(sigs) ==
    {<<sigs[i].lookback, sigs[i].group_thresh, sigs[i].participation,
       sigs[i].lagger_max_move>> : i \in DOMAIN sigs}

RECURSIVE Concat(_)
Concat(ss) ==
    IF ss = <<>> THEN <<>>
    ELSE IF Len(ss) = 1 THEN ss[1]
    ELSE LET half == Len(ss) \div 2
         IN Concat(SubSeq(ss, 1, half)) \o Concat(SubSeq(ss, half + 1, Len(ss)))

\* adaptive_rule_grid: every parameter tuple with every entry lag and hold
adaptive_rule_grid(sigs) ==
    LET sets == SeqOfSet(unique_param_sets(sigs))
    IN Concat([i \in DOMAIN sets |->
           Concat([e \in DOMAIN entry_lags |->
               [h \in DOMAIN holds |->
                   [lookback |-> sets[i][1], group_thresh |-> sets[i][2],
                    participation |-> sets[i][3],
                    lagger_max_move |-> sets[i][4],
                    entry_lag |-> entry_lags[e], hold_days |-> holds[h]]]])])

\* the row of the frame at 0-based position i
Iloc(s, i) == s[i + 1]

\* the date of the row at 0-based position i
IndexAt(i) == i + 1

\* the trade row appended for a signal at position signal_loc and one
\* grid entry, given that the entry index is in range
TradeRow(s, sig, params, signal_loc, exit_in_range) ==
    LET entry_idx == signal_loc + params.entry_lag
        exit_idx == entry_idx + params.hold_days
        entry_price == Iloc(s, entry_idx)
        exit_price == Iloc(s, exit_idx)
        exit_date == IF exit_in_range THEN IndexAt(exit_idx) ELSE NaT
        ret == IF exit_in_range
                   THEN Reduced(Frac((exit_price - entry_price) * sig.direction,
                                     entry_price))
               ELSE QNaN
    IN [group |-> sig.group, ticker |-> sig.ticker,
        direction |-> sig.direction, signal_date |-> sig.signal_date,
        entry_date |-> IndexAt(entry_idx), exit_date |-> exit_date,
        entry_lag |-> params.entry_lag, hold_days |-> params.hold_days,
        lookback |-> sig.lookback, group_thresh |-> sig.group_thresh,
        participation |-> sig.participation,
        lagger_max_move |-> sig.lagger_max_move,
        ret |-> ret, is_open |-> (exit_date = NaT)]

\* mutant of GridTrade: a trade whose exit falls on the last row is left open
GridTradeExitEarly(s, sig, params, signal_loc) ==
    LET entry_idx == signal_loc + params.entry_lag
        exit_idx == entry_idx + params.hold_days
    IN IF \/ params.lookback # sig.lookback
          \/ params.group_thresh # sig.group_thresh
          \/ params.participation # sig.participation
          \/ params.lagger_max_move # sig.lagger_max_move
           THEN <<>>
       ELSE IF entry_idx >= Len(s) THEN <<>>
       ELSE <<TradeRow(s, sig, params, signal_loc, exit_idx < Len(s) - 1)>>

\* mutant of GridTrade: a trade whose exit index is out of range is dropped
GridTradeClosedOnly(s, sig, params, signal_loc) ==
    LET entry_idx == signal_loc + params.entry_lag
        exit_idx == entry_idx + params.hold_days
    IN IF \/ params.lookback # sig.lookback
          \/ params.group_thresh # sig.group_thresh
          \/ params.participation # sig.participation
          \/ params.lagger_max_move # sig.lagger_max_move
           THEN <<>>
       ELSE IF entry_idx >= Len(s) THEN <<>>
       ELSE IF exit_idx >= Len(s) THEN <<>>
       ELSE <<TradeRow(s, sig, params, signal_loc, TRUE)>>

\* one pass of "for params in adaptive_rule_grid": no row for a grid entry of
\* another parameter tuple or with the entry index out of range
GridTrade(s, sig, params, signal_loc) ==
    LET entry_idx == signal_loc + params.entry_lag
        exit_idx == entry_idx + params.hold_days
    IN IF \/ params.lookback # sig.lookback
          \/ params.group_thresh # sig.group_thresh
          \/ params.participation # sig.participation
          \/ params.lagger_max_move # sig.lagger_max_move
           THEN <<>>
       ELSE IF entry_idx >= Len(s) THEN <<>>
       ELSE <<TradeRow(s, sig, params, signal_loc, exit_idx < Len(s))>>

\* one pass of "for sig in signals": nothing for a ticker the frame lacks or
\* a signal_date the index lacks
SignalTrades(frame, sig, grid) ==
    IF sig.ticker \notin DOMAIN frame THEN <<>>
    ELSE IF sig.signal_date \notin 1..Rows(frame) THEN <<>>
    ELSE LET s == frame[sig.ticker]
             signal_loc == sig.signal_date - 1
         IN Concat([i \in DOMAIN grid |-> GridTrade(s, sig, grid[i], signal_loc)])

\* the list trades after the loop over the signals
TradeList(frame, sigs) ==
    LET grid == adaptive_rule_grid(sigs)
    IN Concat([i \in DOMAIN sigs |-> SignalTrades(frame, sigs[i], grid)])

\* mutant of MergeLeft: an inner merge
MergeInner(df, scored) ==
    Concat([i \in DOMAIN df |->
        LET m == Matches(scored, KeyOf(df[i]))
        IN [j \in DOMAIN m |->
               df[i] @@ [rule_id |-> m[j].rule_id,
                         rule_quality_score |-> m[j].rule_quality_score]]])

\* df.merge(scored_rules[merge_cols], on=RULE_KEY_COLS, how="left")
MergeLeft(df, scored) ==
    Concat([i \in DOMAIN df |->
        LET m == Matches(scored, KeyOf(df[i]))
        IN IF m = <<>>
               THEN <<df[i] @@ [rule_id |-> NoRuleId,
                                rule_quality_score |-> QNaN]>>
           ELSE [j \in DOMAIN m |->
                    df[i] @@ [rule_id |-> m[j].rule_id,
                              rule_quality_score |-> m[j].rule_quality_score]]])

\* scored_rules=None and an empty scored table take the same path: the
\* argument <<>> stands for both
backtest_signals(frame, sigs, scored) ==
    IF sigs = <<>> THEN <<>>
    ELSE IF TradeList(frame, sigs) = <<>> THEN <<>>
    ELSE IF scored # <<>> THEN MergeLeft(TradeList(frame, sigs), scored)
    ELSE TradeList(frame, sigs)

\* trades_df = backtest_signals(series, signals)
FirstPass ==
    /\ pc = "first_pass"
    /\ trades_df' = backtest_signals(series, signals, <<>>)
    /\ pc' = "score"
    /\ UNCHANGED <<trades, detector_vars, day, last_day, portfolio_vars, sector_vars,
                   gate_vars, scorer_vars, series, signals, scores_df,
                   scored_rules, trades_with_id, stability_df>>

\* trades_df = backtest_signals(series, signals, scored_rules=...)
SecondPass ==
    /\ pc = "scored"
    /\ \E sdf \in ScoredTables(scores_df) :
          /\ scored_rules' = sdf
          /\ trades_with_id' = backtest_signals(series, signals, sdf)
    /\ pc' = "attached"
    /\ UNCHANGED <<trades, detector_vars, day, last_day, portfolio_vars, sector_vars,
                   gate_vars, scorer_vars, series, signals, trades_df,
                   scores_df, stability_df>>

NextEngine == FirstPass \/ ScoreRules \/ SecondPass

SpecEngine == InitEngine /\ [][NextEngine]_vars

----------------------------------------------------------------------------
(* SpecDetect: one call of _detect_lag_signals_for_group                    *)
(* (signals/lag_detector.py) on the frame of one group.  prepare_normalized *)
(* _series starts every column at the same price, and the frames drawn here *)
(* stay at that price up to the first row a window can end on, so every     *)
(* window starts at the common price and its returns are exact.             *)

MIN_LEADERS_PER_SIGNAL == 2

MIN_LAGGERS_PER_SIGNAL == 1

\* MIN_WINDOW_STD is 1 / MinWindowStdInv
MinWindowStdInv == 100

\* the most columns of a group frame
MaxTickers == 4

\* prices a column can move to from the common price 1000
MovedPrices == {965, 996, 1035, 1050, 1060}

\* n rows at the common price
Flat(n) == [i \in 1..n |-> 1000]

\* lookback, group_thresh, participation, lagger_max_move
DetectParams ==
    {<<2, Frac(3, 100), Frac(6, 10), Frac(1, 100)>>,
     <<2, Frac(3, 100), Frac(1, 2), Frac(3, 80)>>}

DirectionModes == {"up", "down", "both"}

DetectArgs(ps, mode) ==
    [group_name |-> 1, lookback |-> ps[1], group_thresh |-> ps[2],
     participation |-> ps[3], lagger_max_move |-> ps[4], direction |-> mode]

\* a frame of lookback + 1 rows, one window: any number of columns, any
\* parameter set, any direction mode
InitOneWindow ==
    /\ \E n \in 1..MaxTickers :
          series \in [1..n -> {Flat(2) \o <<p>> : p \in MovedPrices}]
    /\ detect_args \in {DetectArgs(ps, mode) :
                           ps \in DetectParams, mode \in DirectionModes}

\* a frame of lookback + 2 rows, two windows, over three columns
InitTwoWindows ==
    /\ series \in [1..3 -> {Flat(2) \o <<p, q>> : p, q \in MovedPrices}]
    /\ detect_args = DetectArgs(<<2, Frac(3, 100), Frac(6, 10), Frac(1, 100)>>,
                                "both")

InitDetect ==
    /\ InitOneWindow \/ InitTwoWindows
    /\ end_idx = detect_args.lookback
    /\ signals = <<>>
    /\ pc = "detect"
    /\ universe = <<>>
    /\ fingerprint = <<>>
    /\ sector_param_grid = <<>>
    /\ trades_df = <<>>
    /\ scores_df = <<>>
    /\ scored_rules = <<>>
    /\ trades_with_id = <<>>
    /\ stability_df = <<>>
    /\ trades = <<>>
    /\ day = 0
    /\ last_day = 0
    /\ best_rules = {}
    /\ cols = AllCols
    /\ PortfolioIdle
    /\ SectorIdle
    /\ GateIdle
    /\ ScorerIdle

FracNeg(a) == IF IsNaN(a) THEN QNaN ELSE Frac(-a.num, a.den)

\* a >= b on floats
FracGe(a, b) == ~IsNaN(a) /\ ~IsNaN(b) /\ a.num * b.den >= b.num * a.den

Lcm(m, n) == (m \div Gcd(m, n)) * n

RECURSIVE LcmOver(_)
LcmOver(S) ==
    IF S = {} THEN 1
    ELSE LET x == CHOOSE y \in S : TRUE IN Lcm(x, LcmOver(S \ {x}))

\* the elements of a set of numbers in ascending order
RECURSIVE Ascending(_)
Ascending(S) ==
    IF S = {} THEN <<>> ELSE <<Min(S)>> \o Ascending(S \ {Min(S)})

\* window_prices.iloc[-1] / window_prices.iloc[0] - 1.0, per column
window_rets(frame, end, lookback) ==
    [t \in DOMAIN frame |->
        Reduced(Frac(Iloc(frame[t], end) - Iloc(frame[t], end - lookback),
                     Iloc(frame[t], end - lookback)))]

\* window_rets.std() < MIN_WINDOW_STD.  The sample standard deviation of one
\* value is not-a-number, which is below nothing; for n values x = X / F it
\* is below 1 / MinWindowStdInv exactly when
\* sum((n*X - sum(X))^2) * MinWindowStdInv^2 < n^2 * (n - 1) * F^2.
LowDispersion(rets) ==
    LET tickers == DOMAIN rets
        n == Cardinality(tickers)
        F == LcmOver({rets[t].den : t \in tickers})
        X == [t \in tickers |-> rets[t].num * (F \div rets[t].den)]
        S == SumOver(X, tickers)
        sq == [t \in tickers |-> (n * X[t] - S) * (n * X[t] - S)]
        bound == n * n * (n - 1) * F * F
    IN /\ n > 1
       /\ SumOver(sq, tickers)
             <= (bound - 1) \div (MinWindowStdInv * MinWindowStdInv)

\* window_rets[window_rets >= group_thresh], for the modes that look up
MoversUp(rets, args) ==
    IF args.direction \in {"up", "both"}
        THEN {t \in DOMAIN rets : FracGe(rets[t], args.group_thresh)}
    ELSE {}

\* window_rets[window_rets <= -group_thresh], for the modes that look down
MoversDown(rets, args) ==
    IF args.direction \in {"down", "both"}
        THEN {t \in DOMAIN rets : FracGe(FracNeg(args.group_thresh), rets[t])}
    ELSE {}

\* mutant of DecideDirection: equal fractions do not resolve to up
DecideDirectionStrict(frac_up, frac_down, participation) ==
    IF FracGe(frac_up, participation) /\ FracGt(frac_up, frac_down) THEN 1
    ELSE IF FracGe(frac_down, participation) /\ FracGt(frac_down, frac_up)
        THEN -1
    ELSE 0

\* dir_sign, or 0 where the code continues with the next window
DecideDirection(frac_up, frac_down, participation) ==
    IF FracGe(frac_up, participation) /\ FracGe(frac_up, frac_down) THEN 1
    ELSE IF FracGe(frac_down, participation) /\ FracGt(frac_down, frac_up)
        THEN -1
    ELSE 0

\* mutant of Laggers: the leaders are not taken out
LaggersWithLeaders(rets, leaders, lagger_max_move) ==
    {t \in DOMAIN rets : FracGe(lagger_max_move, FracAbs(rets[t]))}

\* the columns that barely moved, without the leaders
Laggers(rets, leaders, lagger_max_move) ==
    {t \in DOMAIN rets : FracGe(lagger_max_move, FracAbs(rets[t]))} \ leaders

\* the dict appended for one lagger
LagSignal(args, t, dir_sign, end, leaders, rets) ==
    [group |-> args.group_name, ticker |-> t, direction |-> dir_sign,
     lookback |-> args.lookback, group_thresh |-> args.group_thresh,
     participation |-> args.participation,
     lagger_max_move |-> args.lagger_max_move,
     signal_date |-> IndexAt(end),
     start_date |-> IndexAt(end - args.lookback),
     leaders |-> Ascending(leaders), lagger_ret |-> rets[t],
     window_rets |-> rets]

\* one pass of "for end_idx in range(lookback, len(series_group))": the
\* signals it appends
WindowSignals(frame, args, end) ==
    LET rets == window_rets(frame, end, args.lookback)
        n == Cardinality(DOMAIN frame)
        movers_up == MoversUp(rets, args)
        movers_down == MoversDown(rets, args)
        frac_up == Reduced(Frac(Cardinality(movers_up), n))
        frac_down == Reduced(Frac(Cardinality(movers_down), n))
        dir_sign == DecideDirection(frac_up, frac_down, args.participation)
        leaders == IF dir_sign = 1 THEN movers_up ELSE movers_down
        laggers == Ascending(Laggers(rets, leaders, args.lagger_max_move))
    IN IF LowDispersion(rets) THEN <<>>
       ELSE IF dir_sign = 0 THEN <<>>
       ELSE IF Cardinality(leaders) < MIN_LEADERS_PER_SIGNAL THEN <<>>
       ELSE IF Len(laggers) < MIN_LAGGERS_PER_SIGNAL THEN <<>>
       ELSE [i \in DOMAIN laggers |->
                LagSignal(args, laggers[i], dir_sign, end, leaders, rets)]

\* the list _detect_lag_signals_for_group returns
detect_lag_signals_for_group(frame, args) ==
    Concat([w \in 1..Max({0, Rows(frame) - args.lookback}) |->
               WindowSignals(frame, args, args.lookback + w - 1)])

\* one window of the loop
DetectWindow ==
    /\ pc = "detect"
    /\ end_idx < Rows(series)
    /\ signals' = signals \o WindowSignals(series, detect_args, end_idx)
    /\ end_idx' = end_idx + 1
    /\ UNCHANGED <<trades, pc, day, last_day, portfolio_vars, sector_vars,
                   gate_vars, scorer_vars, series, trades_df, scores_df,
                   scored_rules, trades_with_id, stability_df, detect_args,
                   universe, fingerprint, sector_param_grid>>

\* "return signals"
DetectReturn ==
    /\ pc = "detect"
    /\ end_idx >= Rows(series)
    /\ pc' = "detected"
    /\ UNCHANGED <<trades, detector_vars, day, last_day, portfolio_vars,
                   sector_vars, gate_vars, scorer_vars, engine_vars>>

NextDetect == DetectWindow \/ DetectReturn

SpecDetect == InitDetect /\ [][NextDetect]_vars

----------------------------------------------------------------------------
(* SpecPipeline: detect_lag_signals (signals/lag_detector.py) with the grid *)
(* of build_sector_param_grid (backtest/adaptive_grid.py), followed by the  *)
(* first backtest_signals pass, as run_engine chains them.  The fingerprint *)
(* of a group, vol and cs_disp, is a mean of standard deviations of float   *)
(* returns; it is drawn on both sides of every bucket limit.                *)

\* vol and cs_disp of a group
VolLevels == {Frac(1, 100), Frac(1, 40), Frac(1, 25)}

DispLevels == {Frac(1, 100), Frac(9, 500), Frac(11, 500), Frac(3, 100)}

\* prices the last row of a pipeline frame can hold
LastPrices == {996, 1050, 1060}

\* group name -> tickers: one group; a second group none of whose tickers
\* the frame holds; two groups over the same tickers
Universes ==
    {<< <<1, <<1, 2, 3>>>> >>,
     << <<1, <<1, 2, 3>>>>, <<2, <<4>>>> >>,
     << <<1, <<1, 2, 3>>>>, <<2, <<1, 2, 3>>>> >>}

InitPipeline ==
    /\ series \in [1..3 -> {Flat(3) \o <<p>> : p \in LastPrices}]
    /\ universe \in Universes
    /\ fingerprint \in [DOMAIN universe -> [vol : VolLevels, cs_disp : DispLevels]]
    /\ \A i, j \in DOMAIN universe :
          universe[i][2] = universe[j][2] => fingerprint[i] = fingerprint[j]
    /\ sector_param_grid = <<>>
    /\ detect_args = <<>>
    /\ end_idx = 0
    /\ signals = <<>>
    /\ pc = "grid"
    /\ trades_df = <<>>
    /\ scores_df = <<>>
    /\ scored_rules = <<>>
    /\ trades_with_id = <<>>
    /\ stability_df = <<>>
    /\ trades = <<>>
    /\ day = 0
    /\ last_day = 0
    /\ best_rules = {}
    /\ cols = AllCols
    /\ PortfolioIdle
    /\ SectorIdle
    /\ GateIdle
    /\ ScorerIdle

\* [t for t in tickers if t in series.columns], and series[tickers]
PresentTickers(frame, tickers) ==
    SelectSeq(tickers, LAMBDA t : t \in DOMAIN frame)

SubFrame(frame, tickers) == [t \in Range(tickers) |-> frame[t]]

Lookbacks(vol) ==
    IF FracGt(vol, Frac(3, 100)) THEN <<2, 3>>
    ELSE IF FracGt(vol, Frac(1, 50)) THEN <<3, 5>>
    ELSE <<5, 10>>

Holds(vol) ==
    IF FracGt(vol, Frac(3, 100)) THEN <<3, 5>>
    ELSE IF FracGt(vol, Frac(1, 50)) THEN <<3, 5, 7>>
    ELSE <<5, 7, 10>>

GroupThreshVals(cs_disp) ==
    IF FracGt(cs_disp, Frac(1, 40)) THEN <<Frac(3, 100), Frac(1, 20)>>
    ELSE IF FracGt(cs_disp, Frac(3, 200)) THEN <<Frac(1, 50), Frac(3, 100)>>
    ELSE <<Frac(3, 200), Frac(1, 50)>>

ParticipationVals(cs_disp) ==
    IF FracGt(cs_disp, Frac(1, 50)) THEN <<Frac(3, 5), Frac(7, 10)>>
    ELSE <<Frac(1, 2), Frac(3, 5)>>

\* Python's min(a, b): b if b < a, else a
PyMin(a, b) == IF FracGt(a, b) THEN b ELSE a

\* [min(gt * 0.75, 0.04) for gt in group_thresh_vals]
LaggerMaxVals(group_thresh_vals) ==
    [i \in DOMAIN group_thresh_vals |->
        PyMin(FracMul(group_thresh_vals[i], Frac(3, 4)), Frac(1, 25))]

grid_entry_lags == <<0, 1>>

\* the six nested loops that fill params_list
ParamsList(lbs, gts, parts, lags, elags, hs) ==
    Concat([a \in DOMAIN lbs |->
     Concat([b \in DOMAIN gts |->
      Concat([c \in DOMAIN parts |->
       Concat([d \in DOMAIN lags |->
        Concat([e \in DOMAIN elags |->
         [h \in DOMAIN hs |->
            [lookback |-> lbs[a], group_thresh |-> gts[b],
             participation |-> parts[c], lagger_max_move |-> lags[d],
             entry_lag |-> elags[e], hold |-> hs[h]]]])])])])])

\* the params_list of a group with the fingerprint fp
GroupGrid(fp) ==
    ParamsList(Lookbacks(fp.vol), GroupThreshVals(fp.cs_disp),
               ParticipationVals(fp.cs_disp),
               LaggerMaxVals(GroupThreshVals(fp.cs_disp)),
               grid_entry_lags, Holds(fp.vol))

\* the dict build_sector_param_grid returns, as (group name, params_list)
\* items: no item for a group without a ticker in the frame or without a
\* row of returns
build_sector_param_grid(frame, univ, fp) ==
    Concat([i \in DOMAIN univ |->
        IF PresentTickers(frame, univ[i][2]) = <<>> THEN <<>>
        ELSE IF Rows(frame) < 2 THEN <<>>
        ELSE << <<univ[i][1], GroupGrid(fp[i])>> >>])

\* sector_param_grid.get(group_name, [])
GridGet(grid, group_name) ==
    LET hits == SelectSeq(grid, LAMBDA item : item[1] = group_name)
    IN IF hits = <<>> THEN <<>> ELSE hits[1][2]

\* the arguments of the call made for one entry of param_list
CallArgs(group_name, params) ==
    [group_name |-> group_name, lookback |-> params.lookback,
     group_thresh |-> params.group_thresh,
     participation |-> params.participation,
     lagger_max_move |-> params.lagger_max_move, direction |-> "both"]

\* "for params in param_list": the signals of every call, in order
GroupSignals(group_series, group_name, param_list) ==
    Concat([k \in DOMAIN param_list |->
        detect_lag_signals_for_group(group_series,
                                     CallArgs(group_name, param_list[k]))])

\* all_signals after the loop over the groups
detect_lag_signals(frame, univ, grid) ==
    Concat([i \in DOMAIN univ |->
        LET tickers == PresentTickers(frame, univ[i][2])
        IN IF tickers = <<>> THEN <<>>
           ELSE GroupSignals(SubFrame(frame, tickers), univ[i][1],
                             GridGet(grid, univ[i][1]))])

\* sector_param_grid = build_sector_param_grid(series, universe)
BuildGrid ==
    /\ pc = "grid"
    /\ sector_param_grid' = build_sector_param_grid(series, universe, fingerprint)
    /\ pc' = "detect_groups"
    /\ UNCHANGED <<trades, day, last_day, portfolio_vars, sector_vars,
                   gate_vars, scorer_vars, engine_vars, detect_args, end_idx,
                   universe, fingerprint>>

\* the loop over the groups, and "return all_signals"
DetectGroups ==
    /\ pc = "detect_groups"
    /\ signals' = detect_lag_signals(series, universe, sector_param_grid)
    /\ pc' = "first_pass"
    /\ UNCHANGED <<trades, detector_vars, day, last_day, portfolio_vars,
                   sector_vars, gate_vars, scorer_vars, series, trades_df,
                   scores_df, scored_rules, trades_with_id, stability_df>>

NextPipeline == BuildGrid \/ DetectGroups \/ FirstPass

SpecPipeline == InitPipeline /\ [][NextPipeline]_vars

----------------------------------------------------------------------------
(* The sector metrics table of compute_investable_sectors                   *)
(* (reporting/sector_filters.py): _compute_sector_metrics on the daily      *)
(* table and _compute_stability_score per sector.  volatility, sharpe and   *)
(* sortino are floating-point functions of the same series (a square root   *)
(* each) and are not carried.  The index of daily holds business-day        *)
(* ordinals; ordinal 1 is a Monday.                                         *)

\* the windows end 30, 60 and 150 calendar days before the last date
Last30Days == 30

Last60Days == 60

Last150Days == 150

\* the calendar day number of a business-day ordinal
CalendarDay(b) == 7 * ((b - 1) \div 5) + ((b - 1) % 5) + 1

\* a cell of daily as a float
CellValue(c) == Reduced(Frac(c.num, c.den * RetScale))

\* daily[sector].dropna(): date -> return
SectorSeries(dly, g) == [d \in DOMAIN dly |-> CellValue(dly[d][g])]

\* the values of a series in date order
SeriesValues(s) == [i \in 1..Cardinality(DOMAIN s) |-> s[Min(DOMAIN s) + i - 1]]

\* mutant of avg_between: the window is closed at both ends
avg_between_closed(s, start, end) ==
    LET mask == {d \in DOMAIN s : CalendarDay(d) >= start /\ CalendarDay(d) <= end}
        x == [i \in 1..Cardinality(mask) |-> s[Min(mask) + i - 1]]
    IN IF mask = {} THEN Frac(0, 1)
       ELSE FracDiv(FracSum(x), Frac(Cardinality(mask), 1))

\* the mean of the series over the dates in (start, end], 0.0 without one;
\* the index is a range of days, so the dates of a window are one too
avg_between(s, start, end) ==
    LET mask == {d \in DOMAIN s : CalendarDay(d) > start /\ CalendarDay(d) <= end}
        x == [i \in 1..Cardinality(mask) |-> s[Min(mask) + i - 1]]
    IN IF mask = {} THEN Frac(0, 1)
       ELSE FracDiv(FracSum(x), Frac(Cardinality(mask), 1))

compute_stability_score(dly, sector) ==
    IF DOMAIN dly = {} THEN Frac(0, 1)
    ELSE IF sector \notin DOMAIN dly[Min(DOMAIN dly)] THEN Frac(0, 1)
    ELSE LET s == SectorSeries(dly, sector)
             last_date == CalendarDay(Max(DOMAIN s))
             last_30 == last_date - Last30Days
             prev_30 == last_date - Last60Days
             prev_90 == last_date - Last150Days
             s_last_30 == avg_between(s, last_30, last_date)
             s_prev_30 == avg_between(s, prev_30, last_30)
             s_prev_90 == avg_between(s, prev_90, prev_30)
         IN FracAdd(FracAdd(FracMul(Frac(1, 2), s_last_30),
                            FracMul(Frac(3, 10), s_prev_30)),
                    FracMul(Frac(1, 5), s_prev_90))

\* dd.min() of dd = (equity - peak) / peak with equity = (1 + series)
\* .cumprod() and peak = equity.cummax(), from position i on
RECURSIVE WorstDrawdown(_, _, _, _, _)
WorstDrawdown(x, i, equity, peak, worst) ==
    IF i > Len(x) THEN worst
    ELSE LET eq == FracMul(equity, FracAdd(Frac(1, 1), x[i]))
             pk == IF i = 1 \/ FracGt(eq, peak) THEN eq ELSE peak
             dd == FracDiv(FracAdd(eq, FracNeg(pk)), pk)
         IN WorstDrawdown(x, i + 1, eq, pk,
                          IF i = 1 \/ FracGt(worst, dd) THEN dd ELSE worst)

\* the dict appended for one sector, with the stability column
MetricsRow(dly, sector) ==
    LET x == SeriesValues(SectorSeries(dly, sector))
    IN [group |-> sector,
        mean |-> NanMean(x),
        win_rate |-> Reduced(Frac(Wins(x), Len(x))),
        max_dd |-> WorstDrawdown(x, 1, Frac(1, 1), Frac(1, 1), Frac(0, 1)),
        stability |-> compute_stability_score(dly, sector)]

\* the metrics table with its stability column; its rows are listed by
\* ascending group
compute_sector_metrics(dly) ==
    IF DOMAIN dly = {} THEN <<>>
    ELSE LET sectors == Ascending(DOMAIN dly[Min(DOMAIN dly)])
         IN [i \in DOMAIN sectors |-> MetricsRow(dly, sectors[i])]

\* metrics = _compute_sector_metrics(daily) and metrics["stability"] = ...
SectorMetrics ==
    /\ pc = "sector_done"
    /\ metrics' = compute_sector_metrics(daily)
    /\ pc' = "metrics_done"
    /\ UNCHANGED <<trades, detector_vars, day, last_day, portfolio_vars,
                   sector_vars, scorer_vars, engine_vars, strict_params,
                   investable_flags, investable_reasons>>

NextSector == SectorStart \/ SectorDay \/ SectorMetrics

SpecSector == InitSector /\ [][NextSector]_vars

----------------------------------------------------------------------------
(* SpecStability: one call of _compute_stability_score on a daily table of  *)
(* one sector that is long enough for the three windows.  A daily table is  *)
(* 0.0 except on the days a trade exits; the tables drawn here are 0.0      *)
(* except on at most MaxMoves days, taken next to the limits of the windows.*)

\* the most days with a return other than 0.0
MaxMoves == 2

\* last dates, one per weekday
LastDays == 111..115

\* calendar days between a date and the last date, at and next to the limits
\* of the windows
LimitAges == {0, 29, 30, 59, 60, 149, 150}

\* the daily table over first..last that is r[d] on the days of DOMAIN r
\* and 0.0 elsewhere
DailyTable(first, last, r) ==
    [d \in first..last |->
        [g \in {1} |-> IF d \in DOMAIN r THEN Frac(r[d], 1) ELSE Frac(0, 1)]]

InitStability ==
    /\ \E last \in LastDays : \E first \in {1, last - 50, last} :
          \E moved \in SUBSET {d \in first..last :
                                 CalendarDay(last) - CalendarDay(d) \in LimitAges} :
             /\ Cardinality(moved) <= MaxMoves
             /\ \E r \in [moved -> Rets] : daily = DailyTable(first, last, r)
    /\ pc = "stability"
    /\ trades = <<>>
    /\ day = 0
    /\ last_day = 0
    /\ best_rules = {}
    /\ cols = AllCols
    /\ PortfolioIdle
    /\ DetectorIdle
    /\ GateIdle
    /\ ScorerIdle
    /\ EngineIdle

\* the call for a sector of the table or for one it lacks; metrics takes
\* the value returned
StabilityScore ==
    /\ pc = "stability"
    /\ \E g \in Sectors :
          metrics' = <<[group |-> g,
                        stability |-> compute_stability_score(daily, g)]>>
    /\ pc' = "stability_scored"
    /\ UNCHANGED <<trades, detector_vars, day, last_day, portfolio_vars,
                   sector_vars, scorer_vars, engine_vars, strict_params,
                   investable_flags, investable_reasons>>

SpecStability == InitStability /\ [][StabilityScore]_vars

----------------------------------------------------------------------------
(* Properties of the portfolio simulator *)

\* rows entering on the day just simulated, split by the admission outcome
AdmittedToday == TodaysIds(day) \cap Range(open_trades)

RefusedToday == TodaysIds(day) \ Range(open_trades)

\* C1: after the admission step of every simulated day, open_trades holds
\* at most MAX_CONCURRENT_TRADES (3) trades.
AdmissionCap == Len(open_trades) <= MAX_CONCURRENT_TRADES

\* a day that filled the last slot and turned a trade away
AdmissionCapWitness ==
    /\ pc = "loop"
    /\ Len(open_trades) = MAX_CONCURRENT_TRADES
    /\ AdmittedToday # {}
    /\ RefusedToday # {}

\* C2: on a day where more trades enter than slots are free and at least one
\* of them carries a score, every trade admitted that day scores at least as
\* high as every trade refused that day; an absent score ranks last.
PriorityAdmission ==
    (RefusedToday # {} /\ \E id \in TodaysIds(day) : Score[id] # NaN)
        => \A a \in AdmittedToday, r \in RefusedToday :
               \/ Score[r] = NaN
               \/ (Score[a] # NaN /\ Score[a] >= Score[r])

\* a later row of the table wins a slot over an earlier, lower-scored row
PriorityAdmissionWitness ==
    \E a \in AdmittedToday, r \in RefusedToday :
        Score[r] # NaN /\ Score[a] > Score[r] /\ a > r

\* a trade whose entry day has been simulated and that is neither held nor
\* in the ledger was refused on its entry day
Missed(id) ==
    /\ pc \in {"loop", "flush", "result", "done"}
    /\ id \in Range(selected)
    /\ trades[id].entry_date <= day
    /\ id \notin Range(open_trades)
    /\ id \notin Range(used_trades)

\* C3: a trade refused on its entry day stays refused: it is admitted on no
\* later day and never reaches used_trades.
MissedAdmissionPermanent ==
    [][\A id \in DOMAIN trades : Missed(id) => Missed(id)']_vars

\* a refused trade on a later day on which a slot is free
MissedAdmissionWitness ==
    \E id \in DOMAIN trades :
        /\ Missed(id)
        /\ trades[id].entry_date < day
        /\ Len(open_trades) < MAX_CONCURRENT_TRADES

\* C4: every admitted trade ends up in used_trades exactly once, by a
\* release or by the terminal flush, and used_trades holds admitted trades
\* only.
AdmittedUsedOnce ==
    [][/\ Range(open_trades) \subseteq Range(open_trades') \cup Range(used_trades')
       /\ Range(used_trades') \subseteq Range(used_trades) \cup Range(open_trades)
       /\ NoDup(used_trades')
       /\ pc' \in {"result", "done"} =>
              /\ Range(open_trades') \subseteq Range(used_trades')
              /\ result'.status = "returned" => result'.used_trades = used_trades'
      ]_vars

\* a finished run with a released trade, a flushed trade and a refused trade
AdmittedUsedOnceWitness ==
    /\ pc = "done"
    /\ \E a, b \in Range(result.used_trades) :
           a \notin Range(open_trades) /\ b \in Range(open_trades)
    /\ \E m \in Range(selected) : m \notin Range(used_trades)

\* C5: among trades of one entry day with the same score, the rows earlier
\* in the table are admitted first.
TieBreakByTableOrder ==
    \A a, b \in TodaysIds(day) :
        (a < b /\ Score[a] # NaN /\ Score[a] = Score[b]
              /\ b \in Range(open_trades))
            => a \in Range(open_trades)

\* C6: with an empty trade table or an empty best-rules table the call
\* returns the empty result; it neither checks columns nor simulates.
EmptyInputsShortCircuit ==
    (trades = <<>> \/ best_rules = {})
        => /\ pc \in {"call", "done"}
           /\ pc = "done" => result = EmptyResult
           /\ day = 0 /\ selected = <<>> /\ used_trades = <<>>

\* an empty best-rules table that lacks the key columns, and a non-empty
\* trade table
EmptyInputsWitness ==
    /\ pc = "done"
    /\ trades # <<>>
    /\ best_rules = {}
    /\ ~cols.rules_key
    /\ result = EmptyResult

\* C7: when no trade matches a best rule, the call returns the empty result.
EmptinessPropagates ==
    (/\ pc = "done"
     /\ trades # <<>>
     /\ best_rules # {}
     /\ cols.trades_key /\ cols.rules_key /\ cols.rules_meta
     /\ \A i \in DOMAIN trades : trades[i].rule \notin best_rules)
        => result = EmptyResult

\* C8: if every closed trade exits strictly after it enters, a non-empty
\* equity curve starts at exactly 1.
EquityStartsAtOne ==
    (/\ pc = "done"
     /\ DOMAIN result.equity_curve # {}
     /\ \A i \in DOMAIN trades :
            trades[i].exit_date # NaT => trades[i].exit_date > trades[i].entry_date)
        => LET first == result.equity_curve[Min(DOMAIN result.equity_curve)]
           IN first.num = first.den

\* such a curve that moves away from 1 after its first day
EquityStartsAtOneWitness ==
    /\ pc = "done"
    /\ DOMAIN result.equity_curve # {}
    /\ \A i \in DOMAIN trades :
           trades[i].exit_date # NaT => trades[i].exit_date > trades[i].entry_date
    /\ \E d \in DOMAIN result.equity_curve :
           result.equity_curve[d].num # result.equity_curve[d].den

----------------------------------------------------------------------------
(* Properties of the sector filter *)

FracEq(a, b) == a.num * b.den = b.num * a.den

ClosedIds == {i \in DOMAIN trades : trades[i].exit_date # NaT}

RetOf == [i \in DOMAIN trades |-> trades[i].ret]

SectorExits(g, d) ==
    {i \in ClosedIds : trades[i].group = g /\ trades[i].exit_date = d}

SectorOpen(g, d) ==
    {i \in ClosedIds : /\ trades[i].group = g
                       /\ trades[i].entry_date <= d
                       /\ d <= trades[i].exit_date}

\* C9: for every sector and every day of [min entry, max exit] the sector's
\* daily return is the sum of ret / n_open over the sector's trades exiting
\* that day (0 when none exits), n_open counting the sector's closed trades
\* open that day; every closed trade's ret is booked on exactly one day.
SectorAttribution ==
    (pc = "sector_done" /\ ClosedIds # {})
        => LET start == Min({trades[i].entry_date : i \in ClosedIds})
               end   == Max({trades[i].exit_date : i \in ClosedIds})
               groups == {trades[i].group : i \in ClosedIds}
           IN /\ DOMAIN daily = start..end
              /\ \A d \in start..end :
                    /\ DOMAIN daily[d] = groups
                    /\ \A g \in groups :
                          IF SectorExits(g, d) = {}
                              THEN daily[d][g].num = 0
                          ELSE FracEq(daily[d][g],
                                      Frac(SumOver(RetOf, SectorExits(g, d)),
                                           Cardinality(SectorOpen(g, d))))
              /\ \A i \in ClosedIds :
                    Cardinality({d \in DOMAIN daily :
                                    i \in SectorExits(trades[i].group, d)}) = 1
              /\ \A g \in groups :
                    SumOver([d \in DOMAIN daily |-> daily[d][g].num], DOMAIN daily)
                        = SumOver(RetOf, {i \in ClosedIds : trades[i].group = g})

\* two trades of a sector are open on a day on which one of them exits, while
\* a trade of another sector is open too: the exit is booked at half weight
SectorAttributionWitness ==
    /\ pc = "sector_done"
    /\ \E i, j, k \in ClosedIds : \E d \in DOMAIN daily :
          /\ trades[i].group = trades[j].group
          /\ trades[k].group # trades[i].group
          /\ SectorOpen(trades[i].group, d) = {i, j}
          /\ SectorExits(trades[i].group, d) = {i}
          /\ k \in SectorOpen(trades[k].group, d)
          /\ daily[d][trades[i].group] = Frac(trades[i].ret, 2)

\* the criteria a row fails, in the order the gate tests them
GateOrder == <<"mean", "win_rate", "sharpe", "sortino", "stability", "max_dd">>

ReasonOf ==
    [mean |-> "mean return is not positive", win_rate |-> "win rate is below 50%",
     sharpe |-> "Sharpe is too weak", sortino |-> "Sortino is too weak",
     stability |-> "stability score is too weak",
     max_dd |-> "max drawdown is too deep"]

PassesAll(row) ==
    /\ row.mean >= strict_params.min_mean
    /\ row.win_rate >= strict_params.min_win_rate
    /\ row.sharpe >= strict_params.min_sharpe
    /\ row.sortino >= strict_params.min_sortino
    /\ row.stability >= strict_params.min_stability
    /\ row.max_dd >= strict_params.min_max_dd

FailedCriteria(row) ==
    {c \in MetricNames :
        \/ c = "mean" /\ ~(row.mean >= strict_params.min_mean)
        \/ c = "win_rate" /\ ~(row.win_rate >= strict_params.min_win_rate)
        \/ c = "sharpe" /\ ~(row.sharpe >= strict_params.min_sharpe)
        \/ c = "sortino" /\ ~(row.sortino >= strict_params.min_sortino)
        \/ c = "stability" /\ ~(row.stability >= strict_params.min_stability)
        \/ c = "max_dd" /\ ~(row.max_dd >= strict_params.min_max_dd)}

\* the reasons of the failed criteria in the gate's order
RECURSIVE ReasonsInOrder(_, _)
ReasonsInOrder(failed, i) ==
    IF i > Len(GateOrder) THEN <<>>
    ELSE (IF GateOrder[i] \in failed THEN <<ReasonOf[GateOrder[i]]>> ELSE <<>>)
             \o ReasonsInOrder(failed, i + 1)

\* C10: a sector is marked investable iff all six metrics reach their
\* floors; its reason list has one entry per failed criterion, in the fixed
\* order, and is empty iff the sector is investable.
SectorGate ==
    /\ \A i \in DOMAIN investable_flags :
          /\ investable_flags[i] <=> PassesAll(metrics[i])
          /\ Len(investable_reasons[i]) = Cardinality(FailedCriteria(metrics[i]))
          /\ investable_reasons[i] = ReasonsInOrder(FailedCriteria(metrics[i]), 1)
          /\ (investable_reasons[i] = <<>>) <=> investable_flags[i]
    /\ pc = "gate_done" =>
          \A i \in DOMAIN metrics :
              /\ metrics[i].is_investable <=> PassesAll(metrics[i])
              /\ metrics[i].investable_reasons = investable_reasons[i]

\* a row rejected for several criteria while another metric sits exactly on
\* its floor
SectorGateWitness ==
    /\ pc = "gate_done"
    /\ \E i \in DOMAIN metrics :
          /\ ~metrics[i].is_investable
          /\ Len(metrics[i].investable_reasons) >= 2
          /\ metrics[i].win_rate = strict_params.min_win_rate
          /\ strict_params.min_win_rate > 0


\* the floor tables that raise exactly one floor of q
Tightenings(q) ==
    {[q EXCEPT ![f] = v] : f \in FloorNames,
                           v \in MetricLevels} \ {q}

Raises(q, q2) == \A f \in FloorNames : q2[f] >= q[f]

\* the rows of the table that are investable under the floors q
InvestableUnder(q) ==
    {i \in DOMAIN metrics : evaluate_with_floors(metrics[i], q).ok}

\* C11: with the metrics table fixed, raising one floor and leaving the other
\* five unchanged never adds a sector: the rows investable under the raised
\* floors are among the rows the run marked investable.
InvestabilityMonotone ==
    pc = "gate_done" =>
        \A q2 \in Tightenings(strict_params) :
            Raises(strict_params, q2) =>
                InvestableUnder(q2) \subseteq
                    {i \in DOMAIN metrics : metrics[i].is_investable}

\* a sector the run marked investable that a raised floor removes, while
\* raising another floor keeps it
InvestabilityMonotoneWitness ==
    /\ pc = "gate_done"
    /\ \E i \in DOMAIN metrics :
          /\ metrics[i].is_investable
          /\ \E q2 \in Tightenings(strict_params) :
                Raises(strict_params, q2) /\ i \notin InvestableUnder(q2)
          /\ \E q3 \in Tightenings(strict_params) :
                Raises(strict_params, q3) /\ i \in InvestableUnder(q3)


----------------------------------------------------------------------------
(* Properties of the rule scorer *)

\* the penalty of the claimed tiers, in tenths
TierPenalty(n) == IF n >= 200 THEN 10 ELSE IF n >= 50 THEN 8 ELSE 5

DefinedArgs ==
    ~IsNaN(quality_args.avg_ret) /\ ~IsNaN(quality_args.win_rate)
        /\ ~IsNaN(quality_args.max_dd)

\* C12: the score is (avg_ret * win_rate * penalty) / max(1e-6, |max_dd|)
\* with penalty 0.5 below 50 trades, 0.8 from 50 to 199 and 1.0 from 200 on;
\* avg_ret 0.02, win_rate 0.6, max_dd -0.05 and 30 trades give 0.12.
QualityFormula ==
    (pc = "quality_done" /\ DefinedArgs) =>
        LET a  == quality_args.avg_ret
            w  == quality_args.win_rate
            d  == quality_args.max_dd
            t  == TierPenalty(quality_args.n_trades)
            \* |max_dd| >= 1e-6
            big == Abs(d.num) * 1000000 >= d.den
        IN /\ ~IsNaN(quality)
           /\ big => quality.num * (a.den * w.den * 10 * Abs(d.num))
                        = (a.num * w.num * t * d.den) * quality.den
           /\ ~big => quality.num * (a.den * w.den * 10)
                        = (a.num * w.num * t * 1000000) * quality.den
           /\ (a = Frac(2, 100) /\ w = Frac(6, 10) /\ d = Frac(-5, 100)
                 /\ quality_args.n_trades = 30)
                   => FracEq(quality, Frac(12, 100))

\* the scenario of the claim has been computed
QualityFormulaWitness ==
    /\ pc = "quality_done"
    /\ quality_args = [avg_ret |-> Frac(2, 100), win_rate |-> Frac(6, 10),
                       max_dd |-> Frac(-5, 100), n_trades |-> 30]
    /\ FracEq(quality, Frac(12, 100))


\* the row of a scored table for the key k
ScoreRowOf(sdf, k) == Matches(sdf, k)[1]

\* C13: the n_trades, avg_ret_full, win_rate and max_dd of every rule are
\* those of its trades with ret present: they equal what score_rules reports
\* for the table without the open trades.
ScoresIgnoreOpenTrades ==
    (pc = "scored" /\ ClosedOnly(trades_df) # <<>>) =>
        LET closed == score_rules(ClosedOnly(trades_df))
        IN \A i \in DOMAIN closed :
              LET k == KeyOf(closed[i])
                  row == ScoreRowOf(scores_df, k)
              IN /\ row.n_trades = closed[i].n_trades
                 /\ row.avg_ret_full = closed[i].avg_ret_full
                 /\ row.win_rate = closed[i].win_rate
                 /\ row.max_dd = closed[i].max_dd


\* C14: a dict gets the same rule_id whatever the order its fields were
\* inserted in and however often the identifier is computed.
RuleIdDeterministic ==
    \A i, j \in DOMAIN rule_ids : rule_ids[i].rule_id = rule_ids[j].rule_id

\* the identifier was computed for two insertion orders of one dict
RuleIdDeterministicWitness ==
    /\ Len(rule_ids) >= 2
    /\ rule_ids[1].first # rule_ids[2].first
    /\ rule_ids[1].rule_id = rule_ids[2].rule_id


\* C15: the scored table has exactly one row for each RuleKey of the trade
\* table, and over its rows RuleKey and rule_id determine each other.
KeyUniqueness ==
    pc \in {"scored", "stability_done"} =>
        /\ {KeyOf(scores_df[i]) : i \in DOMAIN scores_df}
              = {KeyOf(trades_df[i]) : i \in DOMAIN trades_df}
        /\ \A i, j \in DOMAIN scores_df :
              /\ KeyOf(scores_df[i]) = KeyOf(scores_df[j]) => i = j
              /\ scores_df[i].rule_id = scores_df[j].rule_id => i = j

\* a rule scored from several trades, and two scored rules differing in
\* the group only
KeyUniquenessWitness ==
    /\ pc = "scored"
    /\ Len(trades_df) > Len(scores_df)
    /\ \E i, j \in DOMAIN scores_df :
          /\ scores_df[i].group # scores_df[j].group
          /\ scores_df[i].hold_days = scores_df[j].hold_days
          /\ scores_df[i].rule_id # scores_df[j].rule_id


----------------------------------------------------------------------------
(* Properties of the trade generator *)

\* C16: a trade from a signal at 0-based row i of a series of N rows is open,
\* lacks exit_date and lacks ret exactly when i + entry_lag + hold_days >= N;
\* otherwise exit_date is the date of row i + entry_lag + hold_days and
\* ret = direction * (exit_price / entry_price - 1).
OpenClosedState ==
    \A n \in DOMAIN trades_df :
        LET tr == trades_df[n]
            i == tr.signal_date - 1
            x == i + tr.entry_lag + tr.hold_days
            s == series[tr.ticker]
            past == x >= Rows(series)
        IN /\ tr.is_open <=> tr.exit_date = NaT
           /\ tr.is_open <=> IsNaN(tr.ret)
           /\ tr.is_open <=> past
           /\ ~past =>
                 /\ tr.exit_date = x + 1
                 /\ ~IsNaN(tr.ret)
                 /\ tr.ret.num * s[i + tr.entry_lag + 1]
                       = tr.direction * (s[x + 1] - s[i + tr.entry_lag + 1])
                             * tr.ret.den

\* a signal on the last date with entry_lag 0 has given open trades, next to
\* a closed trade that exits on the last row
OpenClosedStateWitness ==
    /\ pc = "score"
    /\ \E n \in DOMAIN trades_df :
          /\ trades_df[n].signal_date = Rows(series)
          /\ trades_df[n].entry_lag = 0
          /\ trades_df[n].is_open
    /\ \E n \in DOMAIN trades_df :
          /\ ~trades_df[n].is_open
          /\ trades_df[n].exit_date = Rows(series)


\* C17: the second pass returns the rows of the first pass, as many and in
\* the same order, every field of the first pass unchanged, each extended
\* with the rule_id and rule_quality_score the scored table holds for its
\* RuleKey, or with empty values when the table has no row for it.
AttachIsExtension ==
    pc = "attached" =>
        /\ Len(trades_with_id) = Len(trades_df)
        /\ \A n \in DOMAIN trades_df :
              LET old == trades_df[n]
                  new == trades_with_id[n]
                  m == Matches(scored_rules, KeyOf(old))
              IN /\ DOMAIN new = DOMAIN old \cup {"rule_id", "rule_quality_score"}
                 /\ \A f \in DOMAIN old : new[f] = old[f]
                 /\ m # <<>> =>
                       /\ new.rule_id = m[1].rule_id
                       /\ new.rule_quality_score = m[1].rule_quality_score
                 /\ m = <<>> =>
                       /\ new.rule_id = NoRuleId
                       /\ IsNaN(new.rule_quality_score)

\* a second pass with a scored table that covers one of two sectors: a row
\* with its rule's score attached before a row of an unscored rule
AttachIsExtensionWitness ==
    /\ pc = "attached"
    /\ \E i, j \in DOMAIN trades_with_id :
          /\ i < j
          /\ trades_with_id[i].rule_id # NoRuleId
          /\ ~IsNaN(trades_with_id[i].rule_quality_score)
          /\ trades_with_id[j].rule_id = NoRuleId


----------------------------------------------------------------------------
(* Properties of the rule stability table *)

\* C18: a rule of the stability table is investable exactly when the score
\* joined for its RuleKey is above zero; a score of zero, a negative score
\* and no score (the RuleKey has no row in the scores table) give false.
InvestableIffPositiveScore ==
    pc = "stability_done" =>
        \A n \in DOMAIN stability_df :
            LET row == stability_df[n]
                m == Matches(scored_rules, KeyOf(row))
            IN /\ m = <<>> => ~row.is_investable
               /\ m # <<>> =>
                     (row.is_investable <=>
                         (~IsNaN(m[1].rule_quality_score)
                            /\ m[1].rule_quality_score.num > 0))

\* a stability table with an investable rule, a rule whose score is exactly
\* zero and a rule without a row in the scores table
InvestableIffPositiveScoreWitness ==
    /\ pc = "stability_done"
    /\ \E i, j, k \in DOMAIN stability_df :
          /\ stability_df[i].is_investable
          /\ stability_df[j].rule_quality_score = Frac(0, 1)
          /\ ~stability_df[j].is_investable
          /\ Matches(scored_rules, KeyOf(stability_df[k])) = <<>>
          /\ ~stability_df[k].is_investable


\* C19: every row score_rules returns has a defined rule_quality_score, for
\* any mix of closed and open trades; a worst return of exactly zero is
\* replaced by the floor 1e-6 in the denominator.
ScoresDefined ==
    pc = "scored" =>
        \A n \in DOMAIN scores_df :
            LET row == scores_df[n]
            IN /\ ~IsNaN(row.rule_quality_score)
               /\ row.max_dd = Frac(0, 1) =>
                     row.rule_quality_score =
                         FracMul(FracMul(FracMul(row.avg_ret_full, row.win_rate),
                                         Frac(1, 2)),
                                 Frac(1000000, 1))


----------------------------------------------------------------------------
(* Properties of the release step *)

\* the open trades of the current state that hold their slot through day d
HeldThrough(d) ==
    {id \in Range(open_trades) :
        trades[id].exit_date = NaT \/ trades[id].exit_date >= d}

\* C20: on every simulated day an admitted trade with exit date E is still
\* open if the day is at most E and has been moved to used_trades, before the
\* day's admissions, if the day is after E: the trades entering that day get
\* the slots not held by trades exiting that day or later, and no more.
ReleaseBeforeAdmission ==
    [][(pc = "loop" /\ day' = day + 1) =>
          /\ \A id \in Range(open_trades) :
                /\ id \in HeldThrough(day') => id \in Range(open_trades')
                /\ id \notin HeldThrough(day') =>
                      /\ id \notin Range(open_trades')
                      /\ id \in Range(used_trades')
          /\ \A id \in Range(used_trades') :
                trades[id].exit_date # NaT /\ trades[id].exit_date < day'
          /\ Len(open_trades') =
                Min({MAX_CONCURRENT_TRADES,
                     Cardinality(HeldThrough(day'))
                         + Cardinality(TodaysIds(day'))})]_vars

\* three trades held every slot through day 1, their exit date, and a trade
\* entering on day 2 has taken a slot they left
ReleaseBeforeAdmissionWitness ==
    /\ pc \in {"loop", "flush"}
    /\ day = 2
    /\ Cardinality({id \in Range(used_trades) :
                       trades[id].entry_date = 1 /\ trades[id].exit_date = 1})
           = MAX_CONCURRENT_TRADES
    /\ \E id \in Range(open_trades) : trades[id].entry_date = 2


----------------------------------------------------------------------------
(* Properties of the equity curve *)

\* the admitted trades that have an exit date
AdmittedClosed ==
    {id \in Range(result.used_trades) : trades[id].exit_date # NaT}

\* C21: the equity curve is that of the admitted trades with an exit date:
\* it spans their first entry to their last exit, and each day multiplies it
\* by 1 + (sum of ret of those exiting that day) / (number of those with
\* entry_date <= day <= exit_date); rejected trades and admitted trades
\* without an exit date enter neither the sum nor the count.
EquityFromAdmittedClosed ==
    (pc = "done" /\ result.status = "returned") =>
        IF AdmittedClosed = {} THEN DOMAIN result.equity_curve = {}
        ELSE LET curve == result.equity_curve
                 start == Min({trades[id].entry_date : id \in AdmittedClosed})
                 end == Max({trades[id].exit_date : id \in AdmittedClosed})
             IN /\ DOMAIN curve = start..end
                /\ \A d \in start..end :
                      LET exiting == {id \in AdmittedClosed :
                                         trades[id].exit_date = d}
                          n == Cardinality({id \in AdmittedClosed :
                                               /\ trades[id].entry_date <= d
                                               /\ trades[id].exit_date >= d})
                          prev == IF d = start THEN Frac(1, 1) ELSE curve[d - 1]
                          sum == SumOver(RetOf, exiting)
                      IN IF exiting = {} THEN FracEq(curve[d], prev)
                         ELSE FracEq(curve[d],
                                     Frac(prev.num * (n * RetScale + sum),
                                          prev.den * (n * RetScale)))

\* a curve that moves, from a run that rejected a trade with an exit date and
\* admitted a trade without one
EquityFromAdmittedClosedWitness ==
    /\ pc = "done"
    /\ result.status = "returned"
    /\ \E d \in DOMAIN result.equity_curve :
          result.equity_curve[d].num # result.equity_curve[d].den
    /\ \E id \in Range(selected) \ Range(result.used_trades) :
          trades[id].exit_date # NaT
    /\ \E id \in Range(result.used_trades) : trades[id].exit_date = NaT


----------------------------------------------------------------------------
(* Properties of open-ended trades *)

OpenEnded(ids) == {id \in ids : trades[id].exit_date = NaT}

----------------------------------------------------------------------------
(* Properties of the trade fan-out *)

\* how often a value occurs in a sequence
Occurrences(seq, x) == Cardinality({i \in DOMAIN seq : seq[i] = x})

\* the rows of the trade table that stem from the signal sig with the entry
\* lag e and the hold h
RowsOf(sig, e, h) ==
    {n \in DOMAIN trades_df :
        /\ \A f \in DOMAIN sig : trades_df[n][f] = sig[f]
        /\ trades_df[n].entry_lag = e
        /\ trades_df[n].hold_days = h}

\* C24: a signal whose ticker and date the series holds, at 0-based row i of
\* N rows, gives exactly one trade for every entry lag of {0,1,2,3} and hold
\* of {3,5,7,10} with i + entry_lag < N, open or closed, and none for the
\* entry lags with i + entry_lag >= N; other signals give none.
TradesPerSignal ==
    pc # "first_pass" =>
        \A k \in DOMAIN signals :
            \A e \in {0, 1, 2, 3}, h \in {3, 5, 7, 10} :
                LET sig == signals[k]
                    i == sig.signal_date - 1
                    present == sig.ticker \in DOMAIN series
                                  /\ sig.signal_date \in 1..Rows(series)
                IN Cardinality(RowsOf(sig, e, h)) =
                       IF present /\ i + e < Rows(series)
                           THEN Occurrences(signals, sig)
                       ELSE 0

\* a signal on the second last date: trades for the entry lags 0 and 1 only,
\* all of them open
TradesPerSignalWitness ==
    /\ pc = "score"
    /\ \E k \in DOMAIN signals :
          /\ signals[k].ticker \in DOMAIN series
          /\ signals[k].signal_date = Rows(series) - 1
          /\ RowsOf(signals[k], 1, 10) # {}
          /\ RowsOf(signals[k], 2, 3) = {}
          /\ \A n \in RowsOf(signals[k], 1, 10) : trades_df[n].is_open


----------------------------------------------------------------------------
(* Properties of the sign of the rule score *)

\* C29: a rule with a closed trade and a row in the scorer's output is
\* investable exactly when the mean of its closed-trade returns is above
\* zero: the win rate, the worst return and the sample-size penalty never
\* change the sign of the score.
InvestableIffPositiveMean ==
    pc = "stability_done" =>
        \A n \in DOMAIN stability_df :
            LET row == stability_df[n]
                m == Matches(scored_rules, KeyOf(row))
            IN (m # <<>> /\ row.n_trades >= 1) =>
                  /\ row.is_investable <=> FracGt(row.avg_ret_full, Frac(0, 1))
                  /\ FracGt(m[1].rule_quality_score, Frac(0, 1))
                        <=> FracGt(m[1].avg_ret_full, Frac(0, 1))

\* an investable rule that has a losing trade and a win rate below one
InvestableIffPositiveMeanWitness ==
    /\ pc = "stability_done"
    /\ \E i \in DOMAIN stability_df :
          /\ Matches(scored_rules, KeyOf(stability_df[i])) # <<>>
          /\ stability_df[i].is_investable
          /\ FracGt(Frac(0, 1), stability_df[i].max_dd)
          /\ FracGt(Frac(1, 1), stability_df[i].win_rate)


----------------------------------------------------------------------------
(* Properties of the lag detector *)

\* the 0-based end rows of the windows the loop has been through
DoneWindows == detect_args.lookback..(end_idx - 1)

\* the signals appended for the window that ends on row e
EmittedAt(e) == {k \in DOMAIN signals : signals[k].signal_date = e + 1}

\* the price change of column t over the window that ends on row e, and the
\* price it started from
Change(t, e) == series[t][e + 1] - series[t][e + 1 - detect_args.lookback]

StartPrice(t, e) == series[t][e + 1 - detect_args.lookback]

\* the columns whose window return is at least group_thresh, and those whose
\* window return is at most -group_thresh
UpMovers(e) ==
    {t \in DOMAIN series :
        Change(t, e) * detect_args.group_thresh.den
            >= detect_args.group_thresh.num * StartPrice(t, e)}

DownMovers(e) ==
    {t \in DOMAIN series :
        Change(t, e) * detect_args.group_thresh.den
            <= -detect_args.group_thresh.num * StartPrice(t, e)}

\* k of the n columns are at least the participation share
Reaches(k) ==
    k * detect_args.participation.den
        >= detect_args.participation.num * Cardinality(DOMAIN series)

\* the columns that moved by at most lagger_max_move over the window that
\* ends on row e
BarelyMoved(e) ==
    {t \in DOMAIN series :
        Abs(Change(t, e)) * detect_args.lagger_max_move.den
            <= detect_args.lagger_max_move.num * StartPrice(t, e)}

\* C22: with both directions looked at, the signals of a window are up
\* exactly when the up-fraction reaches participation and is at least the
\* down-fraction, down exactly when that fails and the down-fraction reaches
\* participation and is above the up-fraction; a window for which neither
\* holds, or whose winning side has fewer than 2 movers, emits nothing, and
\* a window with a direction, 2 movers on that side, dispersion and a column
\* that barely moved and is no leader emits a signal.
DirectionDecision ==
    (pc \in {"detect", "detected"} /\ detect_args.direction = "both") =>
        \A e \in DoneWindows :
            LET nu == Cardinality(UpMovers(e))
                nd == Cardinality(DownMovers(e))
                up == Reaches(nu) /\ nu >= nd
                down == ~up /\ Reaches(nd) /\ nd > nu
            IN /\ \A k \in EmittedAt(e) :
                     /\ signals[k].direction \in {1, -1}
                     /\ signals[k].direction = 1 <=> up
                     /\ signals[k].direction = -1 <=> down
               /\ (~up /\ ~down) => EmittedAt(e) = {}
               /\ (up /\ nu < 2) => EmittedAt(e) = {}
               /\ (down /\ nd < 2) => EmittedAt(e) = {}
               /\ (/\ ~LowDispersion(window_rets(series, e, detect_args.lookback))
                   /\ \/ up /\ nu >= 2 /\ BarelyMoved(e) \ UpMovers(e) # {}
                      \/ down /\ nd >= 2 /\ BarelyMoved(e) \ DownMovers(e) # {})
                     => EmittedAt(e) # {}

\* a window with as many columns up as down, both sides at the participation
\* share, has given an up signal
DirectionDecisionWitness ==
    /\ pc = "detected"
    /\ detect_args.direction = "both"
    /\ \E e \in DoneWindows :
          /\ Cardinality(UpMovers(e)) = Cardinality(DownMovers(e))
          /\ Reaches(Cardinality(UpMovers(e)))
          /\ EmittedAt(e) # {}
          /\ \A k \in EmittedAt(e) : signals[k].direction = 1

\* C23: a window that passes the dispersion, direction and 2-leaders filters
\* gives exactly one signal per column that moved by at most lagger_max_move
\* and is not a leader, none if there is no such column; the signals of the
\* window share direction, leaders and signal_date, and the ticker of a
\* signal is not among its leaders.
SignalFanOut ==
    pc \in {"detect", "detected"} =>
        \A e \in DoneWindows :
            LET rets == window_rets(series, e, detect_args.lookback)
                n == Cardinality(DOMAIN series)
                up == MoversUp(rets, detect_args)
                down == MoversDown(rets, detect_args)
                dir == DecideDirection(Reduced(Frac(Cardinality(up), n)),
                                       Reduced(Frac(Cardinality(down), n)),
                                       detect_args.participation)
                leaders == IF dir = 1 THEN up ELSE down
                laggers == BarelyMoved(e) \ leaders
            IN (/\ ~LowDispersion(rets)
                /\ dir # 0
                /\ Cardinality(leaders) >= 2) =>
                  /\ Cardinality(EmittedAt(e)) = Cardinality(laggers)
                  /\ {signals[k].ticker : k \in EmittedAt(e)} = laggers
                  /\ \A k \in EmittedAt(e) :
                        /\ signals[k].direction = dir
                        /\ Range(signals[k].leaders) = leaders
                        /\ signals[k].ticker \notin Range(signals[k].leaders)

\* window returns 0.06, 0.05 and -0.004 with group_thresh 0.03, participation
\* 0.6 and lagger_max_move 0.01: one signal, up, on the third column, the
\* first two columns its leaders
SignalFanOutWitness ==
    /\ pc = "detected"
    /\ series = <<Flat(2) \o <<1060>>, Flat(2) \o <<1050>>, Flat(2) \o <<996>>>>
    /\ detect_args.group_thresh = Frac(3, 100)
    /\ detect_args.participation = Frac(6, 10)
    /\ detect_args.lagger_max_move = Frac(1, 100)
    /\ Len(signals) = 1
    /\ signals[1].ticker = 3
    /\ signals[1].direction = 1
    /\ signals[1].leaders = <<1, 2>>


----------------------------------------------------------------------------
(* Properties of the parameter grid and of the pipeline *)

\* the parameter sets of every group's grid
GridParams ==
    UNION {Range(sector_param_grid[i][2]) : i \in DOMAIN sector_param_grid}

\* C30: in every parameter set of every group's grid, lagger_max_move is
\* strictly below the group_thresh of the same parameter set.
LaggerBelowGroupThresh ==
    pc \in {"detect_groups", "first_pass", "score"} =>
        \A params \in GridParams :
            FracGt(params.group_thresh, params.lagger_max_move)

\* the columns that identify a trade
TradeKey(row) ==
    <<row.group, row.ticker, row.signal_date, row.lookback, row.group_thresh,
      row.participation, row.lagger_max_move, row.entry_lag, row.hold_days>>

\* C26: no two rows of the trade table that detect_lag_signals followed by
\* backtest_signals produces share group, ticker, signal_date, lookback,
\* group_thresh, participation, lagger_max_move, entry_lag and hold_days.
NoDuplicateTrades ==
    pc = "score" =>
        \A i, j \in DOMAIN trades_df :
            i # j => TradeKey(trades_df[i]) # TradeKey(trades_df[j])


----------------------------------------------------------------------------
(* Properties of the sector metrics *)

\* the last date of the daily table, whose index is a range of days
LastDate == CHOOSE d \in DOMAIN daily : d + 1 \notin DOMAIN daily

\* calendar days from a date of the daily table to its last date
Age(d) == CalendarDay(LastDate) - CalendarDay(d)

\* the dates of the table that are at least lo and less than hi calendar
\* days before the last date
AgedDays(lo, hi) == {d \in DOMAIN daily : lo <= Age(d) /\ Age(d) < hi}

\* the sum of the returns of sector g over a set of dates, in units of
\* 1 / RetScale (every cell of the table is a whole number of units)
UnitsOver(g, W) == SumOver([d \in DOMAIN daily |-> daily[d][g].num], W)

\* C25: with L the last date of the sector's daily series, the stability
\* score is 0.5 * a1 + 0.3 * a2 + 0.2 * a3, where a1, a2 and a3 are the means
\* of the returns dated in (L-30d, L], (L-60d, L-30d] and (L-150d, L-60d]: a
\* date belongs to the window its distance from L falls in, to no window
\* from 150 days on, and a window without dates contributes 0.
StabilityWindows ==
    pc = "stability_scored" =>
        LET g == metrics[1].group
            W1 == AgedDays(0, 30)
            W2 == AgedDays(30, 60)
            W3 == AgedDays(60, 150)
            n1 == Max({1, Cardinality(W1)})
            n2 == Max({1, Cardinality(W2)})
            n3 == Max({1, Cardinality(W3)})
        IN IF g \notin DOMAIN daily[LastDate]
               THEN metrics[1].stability = Frac(0, 1)
           ELSE /\ \A d \in DOMAIN daily : daily[d][g].den = 1
                /\ metrics[1].stability =
                      Reduced(Frac(5 * UnitsOver(g, W1) * n2 * n3
                                     + 3 * UnitsOver(g, W2) * n1 * n3
                                     + 2 * UnitsOver(g, W3) * n1 * n2,
                                   10 * RetScale * n1 * n2 * n3))

\* a table with a return exactly 30 days before the last date, which counts
\* in the second window only, and a return exactly 150 days before it, which
\* counts in none
StabilityWindowsWitness ==
    /\ pc = "stability_scored"
    /\ metrics[1].group \in DOMAIN daily[LastDate]
    /\ \E d \in AgedDays(30, 31) : daily[d][metrics[1].group].num # 0
    /\ \E e \in AgedDays(150, 151) : daily[e][metrics[1].group].num # 0
    /\ metrics[1].stability =
          Reduced(Frac(3 * UnitsOver(metrics[1].group, AgedDays(30, 31)),
                       10 * RetScale * Cardinality(AgedDays(30, 60))))

\* the closed trades of sector g, as row ids in table order
OwnClosed(g) == SelectSeq(ClosedRows, LAMBDA id : trades[id].group = g)

\* the daily table _compute_sector_daily_returns gives for the trades of
\* sector g alone
OwnDaily(g) ==
    LET start == Min({trades[id].entry_date : id \in Range(OwnClosed(g))})
        end == Max({trades[id].exit_date : id \in Range(OwnClosed(g))})
    IN [d \in start..end |-> [h \in {g} |-> SectorReturnOn(OwnClosed(g), g, d)]]

\* C27: the metrics row of a sector (mean, win_rate, max_dd, stability) is
\* the row its own closed trades give: the closed trades of another sector
\* do not change it.
SectorIndependence ==
    pc = "metrics_done" =>
        \A i \in DOMAIN metrics :
            metrics[i] = MetricsRow(OwnDaily(metrics[i].group), metrics[i].group)

====
